---- MODULE Spec2Model ----
(***************************************************************************)
(* A state-machine model of the version-1 scheduler of anki/sched.py: the  *)
(* card rows of the collection, the scheduler's in-memory queues and       *)
(* counters, the card picker, the answer engine, filtered decks, and the   *)
(* bury / suspend operations.                                              *)
(***************************************************************************)
EXTENDS Integers, Sequences, FiniteSets, TLC

(***************************************************************************)
(* Bounds of the model.                                                    *)
(***************************************************************************)
\* the model stops answering cards once the revlog holds this many rows
MaxAnswers == 2
\* number of times the clock may be advanced
MaxTicks == 1
\* the draws of the interval fuzz reach this far from the ideal interval
FuzzSpan == 1
\* number of suspendCards, unsuspendCards, buryCards, unburyCards and fillDyn
\* calls in a run
MaxAdmin == 1
\* the time the user takes over an answer (card.timeTaken()), in ms
TimeTaken == 1
\* how many seconds ahead the later requests of a run are looked at
LaterSecs == 90
\* number of backup() calls in a run
MaxBackups == 2
\* the most a counter of the day of a deck (newToday, revToday) stands at when
\* the deck list is asked for
MaxDone == 2

(***************************************************************************)
(* Program constants.                                                      *)
(***************************************************************************)
QUEUE_SCHED_BURIED == -3
QUEUE_USER_BURIED == -2
QUEUE_SUSPENDED == -1
QUEUE_NEW_CRAM == 0
QUEUE_LRN == 1
QUEUE_REV == 2
QUEUE_DAY_LRN == 3
CARD_NEW == 0
CARD_LRN == 1
CARD_DUE == 2
BUTTON_ONE == 1
BUTTON_TWO == 2
BUTTON_THREE == 3
BUTTON_FOUR == 4
LEECH_SUSPEND == 0
LEECH_TAGONLY == 1
STARTING_FACTOR == 2500
\* seconds in a day
DaySecs == 86400
\* left = today's steps * LeftBase + total steps
LeftBase == 1000
\* the floor of the ease factor
MinFactor == 1300
\* first due number of a card moved to a filtered deck
DynDueBase == -100000
reportLimit == 1000
queueLimit == 50

(***************************************************************************)
(* Rational numbers <<n, d>>, d > 0, in lowest terms.  Python computes     *)
(* ivl * mult, factor / 1000 and the like in floating point; the model     *)
(* computes them exactly.                                                  *)
(***************************************************************************)
Abs(x) == IF x < 0 THEN -x ELSE x

RECURSIVE GCD(_, _)
GCD(a, b) == IF b = 0 THEN a ELSE GCD(b, a % b)

\* LET v == e IN F(v)
Let(v, F(_)) == F(v)

RNorm(n, d) ==
    Let(GCD(Abs(n), d), LAMBDA g :
        IF g = 0 THEN <<0, 1>> ELSE <<n \div g, d \div g>>)

R(n) == <<n, 1>>
RAdd(a, b) == RNorm(a[1] * b[2] + b[1] * a[2], a[2] * b[2])
RSub(a, b) == RNorm(a[1] * b[2] - b[1] * a[2], a[2] * b[2])
RMul(a, b) == RNorm(a[1] * b[1], a[2] * b[2])
RLt(a, b) == a[1] * b[2] < b[1] * a[2]
RLe(a, b) == a[1] * b[2] <= b[1] * a[2]
RIsInt(a) == a[2] = 1
RIsZero(a) == a[1] = 0
\* Python's max() and min() return the first of equal arguments
RMax(a, b) == IF RLt(a, b) THEN b ELSE a
RMin(a, b) == IF RLt(b, a) THEN b ELSE a
\* Python's x // 1 (floor)
RFloor(a) == a[1] \div a[2]
\* Python's int(x): truncation towards zero
RInt(a) == IF a[1] >= 0 THEN a[1] \div a[2] ELSE -((-a[1]) \div a[2])
Max(a, b) == IF a < b THEN b ELSE a
Min(a, b) == IF b < a THEN b ELSE a

(***************************************************************************)
(* Decks.  Deck 1 is a regular deck, deck 2 a filtered deck below it; the  *)
(* selected deck is deck 1, so both are active.                            *)
(***************************************************************************)
HomeDid == 1
DynDid == 2
Dids == {HomeDid, DynDid}
IsDyn(did) == did = DynDid
ActiveDecks == <<HomeDid, DynDid>>
\* the deck and its parents, as decks.parents gives them
DeckAndParents(did) == IF did = DynDid THEN <<DynDid, HomeDid>> ELSE <<did>>

\* cards 2k-1 and 2k belong to note k
NoteOf(c) == (c + 1) \div 2


(***************************************************************************)
(* State.                                                                  *)
(***************************************************************************)
VARIABLES
    conf,         \* the deck options and collection options in force
    cards,        \* the card rows of the collection
    cur,          \* the card object the picker returned last, or NoCard
    lrnQueue,     \* _lrnQueue: heap of <<due, id>>, kept as a sorted sequence
    lrnDayQueue,  \* _lrnDayQueue: list of ids, popped from the end
    revQueue,     \* _revQueue: list of ids, popped from the end
    newQueue,     \* _newQueue: list of ids, popped from the end
    lrnDids,      \* _lrnDids
    revDids,      \* _revDids
    newDids,      \* _newDids
    lrnCount,
    revCount,
    newCount,
    haveQueues,   \* _haveQueues
    now,          \* the clock, in seconds
    ticks,        \* how often the clock was advanced
    today,        \* sched.today
    dayCutoff,    \* sched.dayCutoff
    deckStats,    \* per deck: newToday, revToday, lrnToday, timeToday
    lastUnburied, \* col.conf['lastUnburied']
    nextPos,      \* col.conf['nextPos']
    revlog,       \* number of revlog rows
    leechTags,    \* notes tagged "leech"
    admin,        \* how many bury, suspend and fillDyn calls were made
    backups,      \* the backup folder, the backup threads, and where backup() is
    op            \* the last operation and what it returned

vars == <<conf, cards, cur, lrnQueue, lrnDayQueue, revQueue, newQueue, lrnDids,
          revDids, newDids, lrnCount, revCount, newCount, haveQueues, now, ticks,
          today, dayCutoff, deckStats, lastUnburied, nextPos, revlog, leechTags,
          admin, backups, op>>

NoCard == [id |-> 0]

(***************************************************************************)
(* Deck options seen from a card.                                          *)
(***************************************************************************)
\* whether the answer reschedules the card
resched(card) ==
    IF ~IsDyn(card.did) THEN TRUE ELSE conf.resched

\* the lapse options of the card: those of its home deck, the steps
\* overridden by the filtered deck's when it has some
lapseConf(card) ==
    [delays |-> IF card.odid # 0 /\ conf.dynDelays # <<>>
                THEN conf.dynDelays ELSE conf.lapseDelays,
     hasMult |-> TRUE,
     mult |-> conf.mult,
     minInt |-> conf.minInt,
     leechFails |-> conf.leechFails,
     leechAction |-> conf.leechAction,
     ints |-> conf.ints,
     initialFactor |-> conf.initialFactor]

newConf(card) ==
    [delays |-> IF card.odid # 0 /\ conf.dynDelays # <<>>
                THEN conf.dynDelays ELSE conf.newDelays,
     hasMult |-> FALSE,
     mult |-> conf.mult,
     minInt |-> conf.minInt,
     leechFails |-> conf.leechFails,
     leechAction |-> conf.leechAction,
     ints |-> conf.ints,
     initialFactor |-> conf.initialFactor]

lrnConf(card) ==
    IF card.type = CARD_DUE THEN lapseConf(card) ELSE newConf(card)

\* maxIvl of the review options of the card's (home) deck
revMaxIvl(card) == conf.maxIvl

(***************************************************************************)
(* Learning steps.                                                         *)
(***************************************************************************)
\* Python's delays[-left:]
LastSteps(delays, left) ==
    IF left <= 0 \/ left >= Len(delays) THEN delays
    ELSE SubSeq(delays, Len(delays) - left + 1, Len(delays))

RECURSIVE StepsBefore(_, _, _)
\* the number of leading steps of ds that end at or before the day cutoff
StepsBefore(ds, t, cutoff) ==
    IF ds = <<>> THEN 0
    ELSE IF t + Head(ds) * 60 > cutoff THEN 0
    ELSE 1 + StepsBefore(Tail(ds), t + Head(ds) * 60, cutoff)

\* the number of steps that can be completed by the day cutoff (at least 1)
leftToday(delays, left) ==
    Max(StepsBefore(LastSteps(delays, left), now, dayCutoff), 1)

startingLeft(card) ==
    Let(IF card.type = CARD_DUE THEN lapseConf(card) ELSE lrnConf(card),
        LAMBDA c :
    Let(Len(c.delays), LAMBDA tot :
    Let(leftToday(c.delays, tot), LAMBDA tod :
        tot + tod * LeftBase)))

\* seconds to the step that "left" stands at
delayForGrade(c, left) ==
    LET l == left % LeftBase
        n == Len(c.delays)
        delay == IF l = 0 /\ n > 0 THEN c.delays[1]
                 ELSE IF 1 <= l /\ l <= n THEN c.delays[n - l + 1]
                 ELSE IF n > 0 THEN c.delays[1]
                 ELSE 1
    IN  delay * 60

(***************************************************************************)
(* Intervals.                                                              *)
(***************************************************************************)
\* the fuzz window <<low, high>> of an interval
fuzzIvlRange(ivl) ==
    IF ivl < 2 THEN <<1, 1>>
    ELSE IF ivl = 2 THEN <<2, 3>>
    ELSE LET fuzz0 == IF ivl < 7 THEN ivl \div 4
                      ELSE IF ivl < 30 THEN Max(2, (ivl * 15) \div 100)
                      ELSE Max(4, (ivl * 5) \div 100)
             fuzz == Max(fuzz0, 1)
         IN  <<ivl - fuzz, ivl + fuzz>>

\* random.randint(low, high); r is the draw, as an offset from ivl
fuzzedIvl(ivl, r) ==
    Let(fuzzIvlRange(ivl), LAMBDA w : Max(w[1], Min(w[2], ivl + r)))

adjRevIvl(idealIvl, r) ==
    IF conf.spreadRev THEN fuzzedIvl(idealIvl, r) ELSE idealIvl

\* days later than scheduled
daysLate(card) ==
    RMax(R(0), RSub(R(today), IF card.odid # 0 THEN card.odue ELSE card.due))

constrainedIvl(ivl, prev) ==
    RInt(RMax(RMul(ivl, conf.ivlFct), RAdd(prev, R(1))))

nextRevIvl(card, ease) ==
    Let(daysLate(card), LAMBDA delay :
    Let(RNorm(card.factor, 1000), LAMBDA fct :
    Let(constrainedIvl(
          RMul(RAdd(card.ivl, R(RFloor(RMul(delay, <<1, 4>>)))), <<6, 5>>),
          card.ivl), LAMBDA ivl2 :
    Let(constrainedIvl(
          RMul(RAdd(card.ivl, R(RFloor(RMul(delay, <<1, 2>>)))), fct),
          R(ivl2)), LAMBDA ivl3 :
    Let(constrainedIvl(
          RMul(RMul(RAdd(card.ivl, delay), fct), conf.ease4),
          R(ivl3)), LAMBDA ivl4 :
    Let(IF ease = BUTTON_TWO THEN ivl2
        ELSE IF ease = BUTTON_THREE THEN ivl3
        ELSE ivl4, LAMBDA interval :
        Min(interval, revMaxIvl(card))))))))

\* _updateRevIvl without the cap at maxIvl
updateRevIvlNoCap(card, ease, r) ==
    RMax(R(adjRevIvl(nextRevIvl(card, ease), r)), RAdd(card.ivl, R(1)))

\* the interval after a successful review
updateRevIvl(card, ease, r) ==
    Let(nextRevIvl(card, ease), LAMBDA idealIvl :
    Let(adjRevIvl(idealIvl, r), LAMBDA fuzzed :
    Let(RMax(R(fuzzed), RAdd(card.ivl, R(1))), LAMBDA increasedIvl :
        RMin(increasedIvl, R(revMaxIvl(card))))))

nextLapseIvl(card, c) ==
    R(Max(c.minInt, RInt(RMul(card.ivl, c.mult))))

\* the interval of a review card seen in a filtered deck
dynIvlBoost(card) ==
    Let(RSub(card.odue, card.ivl), LAMBDA lastReview :
    Let(RSub(R(today), lastReview), LAMBDA elapsed :
    Let(RMul(RAdd(RNorm(card.factor, 1000), <<6, 5>>), <<1, 2>>), LAMBDA factor :
    Let(RInt(RMax(RMax(card.ivl, RMul(elapsed, factor)), R(1))), LAMBDA ivl :
        R(Min(revMaxIvl(card), ivl))))))

\* _graduatingIvl that takes the interval of an early removal every time
graduatingIvlEarly(card, c, early, r) ==
    IF card.type = CARD_DUE
    THEN IF card.odid # 0 /\ conf.resched THEN dynIvlBoost(card) ELSE card.ivl
    ELSE R(adjRevIvl(c.ints[2], r))

graduatingIvl(card, c, early, r) ==
    IF card.type = CARD_DUE
    THEN IF card.odid # 0 /\ conf.resched THEN dynIvlBoost(card) ELSE card.ivl
    ELSE LET ideal == IF ~early THEN c.ints[1] ELSE c.ints[2]
         IN  R(adjRevIvl(ideal, r))

(***************************************************************************)
(* The learning heap: Python's heapq over tuples (due, id).  heappop gives *)
(* the least tuple, so the heap is kept as the sorted sequence of its      *)
(* tuples.                                                                 *)
(***************************************************************************)
TupleLt(a, b) == a[1] < b[1] \/ (a[1] = b[1] /\ a[2] < b[2])

\* a push that keeps entries of equal due in the order of their arrival
RECURSIVE heappushStable(_, _)
heappushStable(q, e) ==
    IF q = <<>> THEN <<e>>
    ELSE IF e[1] < Head(q)[1] THEN <<e>> \o q
    ELSE <<Head(q)>> \o heappushStable(Tail(q), e)

RECURSIVE heappush(_, _)
heappush(q, e) ==
    IF q = <<>> THEN <<e>>
    ELSE IF TupleLt(e, Head(q)) THEN <<e>> \o q
    ELSE <<Head(q)>> \o heappush(Tail(q), e)

\* list.remove(x) guarded by try: drop the first x, if any
RECURSIVE RemoveFirst(_, _)
RemoveFirst(q, x) ==
    IF q = <<>> THEN <<>>
    ELSE IF Head(q) = x THEN Tail(q)
    ELSE <<Head(q)>> \o RemoveFirst(Tail(q), x)

(***************************************************************************)
(* The answer engine, on the card object.  Each operator gives the card    *)
(* after the call and what the call did besides: "push" holds the tuple    *)
(* pushed on the learning heap (or <<>>), "lrnAdd" the amount added to     *)
(* lrnCount, "leech" whether a leech was signalled, "pos" whether a new    *)
(* position was drawn from nextPos.                                        *)
(***************************************************************************)
Outcome(card, push, lrnAdd, leech, pos) ==
    [card |-> card, push |-> push, lrnAdd |-> lrnAdd, leech |-> leech, pos |-> pos]

\* the leech test without the half-threshold period
isLeechAtOrOver(card, c) ==
    /\ c.leechFails # 0
    /\ card.lapses >= c.leechFails

\* the leech test alone
isLeech(card, c) ==
    LET lf == c.leechFails IN
    /\ lf # 0
    /\ card.lapses >= lf
    /\ (card.lapses - lf) % Max(lf \div 2, 1) = 0

\* _checkLeech that suspends the card where it is
checkLeechInPlace(card, c) ==
    IF ~isLeech(card, c) THEN [card |-> card, leech |-> FALSE]
    ELSE IF c.leechAction = LEECH_SUSPEND
    THEN [card |-> [card EXCEPT !.queue = QUEUE_SUSPENDED], leech |-> TRUE]
    ELSE [card |-> card, leech |-> TRUE]

checkLeech(card, c) ==
    IF ~isLeech(card, c) THEN [card |-> card, leech |-> FALSE]
    ELSE IF c.leechAction = LEECH_SUSPEND
    THEN [card |-> [card EXCEPT
                      !.due = IF ~RIsZero(card.odue) THEN card.odue ELSE card.due,
                      !.did = IF card.odid # 0 THEN card.odid ELSE card.did,
                      !.odue = R(0),
                      !.odid = 0,
                      !.queue = QUEUE_SUSPENDED],
          leech |-> TRUE]
    ELSE [card |-> card, leech |-> TRUE]

\* the tail of _rescheduleLapse and _answerLrnCard: into the learning heap
\* when due (seconds) falls before the day cutoff, else the day-learn queue
\* "spaced" is whether the due is moved behind the head of the heap
\* queueing that never moves the card behind the head of the heap
enqueueLrnAsComputed(card, due, spaced) ==
    IF due < dayCutoff
    THEN Outcome([card EXCEPT !.queue = QUEUE_LRN, !.due = R(due)],
                 <<due, card.id>>, card.left \div LeftBase, FALSE, FALSE)
    ELSE Let(((due - dayCutoff) \div DaySecs) + 1, LAMBDA ahead :
             Outcome([card EXCEPT !.queue = QUEUE_DAY_LRN, !.due = R(today + ahead)],
                     <<>>, 0, FALSE, FALSE))

\* queueing that puts every card on the heap of today
enqueueLrnToday(card, due, spaced) ==
    Let(IF spaced /\ lrnQueue # <<>> /\ revCount = 0 /\ newCount = 0
        THEN Max(due, lrnQueue[1][1] + 1) ELSE due, LAMBDA d :
        Outcome([card EXCEPT !.queue = QUEUE_LRN, !.due = R(d)],
                <<d, card.id>>, card.left \div LeftBase, FALSE, FALSE))

enqueueLrn(card, due, spaced) ==
    IF due < dayCutoff
    THEN Let(IF spaced /\ lrnQueue # <<>> /\ revCount = 0 /\ newCount = 0
             THEN Max(due, lrnQueue[1][1] + 1) ELSE due, LAMBDA d :
             Outcome([card EXCEPT !.queue = QUEUE_LRN, !.due = R(d)],
                     <<d, card.id>>, card.left \div LeftBase, FALSE, FALSE))
    ELSE Let(((due - dayCutoff) \div DaySecs) + 1, LAMBDA ahead :
             Outcome([card EXCEPT !.queue = QUEUE_DAY_LRN, !.due = R(today + ahead)],
                     <<>>, 0, FALSE, FALSE))

\* the factor after a lapse, without the floor
lapseFactorNoFloor(factor) == factor - 200

\* the factor after a lapse
lapseFactor(factor) == Max(MinFactor, factor - 200)

\* the factor after a successful review
revFactor(factor, ease) ==
    Max(MinFactor, factor + (IF ease = BUTTON_TWO THEN -150
                             ELSE IF ease = BUTTON_THREE THEN 0 ELSE 150))

\* _rescheduleLapse that leaves the due date of the lapsed card alone
rescheduleLapseDueKept(card) ==
    Let(lapseConf(card), LAMBDA c :
    Let(IF resched(card)
        THEN [card EXCEPT !.lapses = card.lapses + 1,
                          !.ivl = nextLapseIvl(card, c),
                          !.factor = lapseFactor(card.factor)]
        ELSE card, LAMBDA c1 :
    Let(checkLeech(c1, c), LAMBDA lk :
        IF (lk.leech /\ lk.card.queue = QUEUE_SUSPENDED) \/ c.delays = <<>>
        THEN Outcome(lk.card, <<>>, 0, lk.leech, FALSE)
        ELSE [enqueueLrn([lk.card EXCEPT !.odue = lk.card.due,
                                         !.left = startingLeft(lk.card)],
                         now + delayForGrade(c, 0), FALSE)
                 EXCEPT !.leech = lk.leech])))

rescheduleLapse(card) ==
    Let(lapseConf(card), LAMBDA c :
    Let(nextLapseIvl(card, c), LAMBDA ivl :
    Let(RAdd(R(today), ivl), LAMBDA due :
    Let(IF resched(card)
        THEN [card EXCEPT !.lapses = card.lapses + 1,
                          !.ivl = ivl,
                          !.factor = lapseFactor(card.factor),
                          !.due = due,
                          !.odue = IF card.odid # 0 THEN due ELSE card.odue]
        ELSE card, LAMBDA c1 :
    Let(checkLeech(c1, c), LAMBDA lk :
    Let(lk.card, LAMBDA c2 :
        IF lk.leech /\ c2.queue = QUEUE_SUSPENDED
        THEN Outcome(c2, <<>>, 0, TRUE, FALSE)
        ELSE IF c.delays = <<>>
        THEN Outcome(c2, <<>>, 0, lk.leech, FALSE)
        ELSE
    Let([c2 EXCEPT !.odue = IF RIsZero(c2.odue) THEN c2.due ELSE c2.odue],
        LAMBDA c3 :
    Let([c3 EXCEPT !.left = startingLeft(c3)], LAMBDA c4 :
        [enqueueLrn(c4, now + delayForGrade(c, 0), FALSE)
            EXCEPT !.leech = lk.leech]))))))))

\* _rescheduleRev that leaves odid set when it moves the card home
rescheduleRevKeepOdid(card, ease, r) ==
    Let(IF resched(card)
        THEN [card EXCEPT !.ivl = updateRevIvl(card, ease, r),
                          !.factor = revFactor(card.factor, ease),
                          !.due = RAdd(R(today), updateRevIvl(card, ease, r))]
        ELSE [card EXCEPT !.due = card.odue], LAMBDA c1 :
        Outcome(IF c1.odid # 0
                THEN [c1 EXCEPT !.did = c1.odid, !.odue = R(0)] ELSE c1,
                <<>>, 0, FALSE, FALSE))

rescheduleRev(card, ease, r) ==
    Let(updateRevIvl(card, ease, r), LAMBDA ivl :
    Let(IF resched(card)
        THEN [card EXCEPT !.ivl = ivl,
                          !.factor = revFactor(card.factor, ease),
                          !.due = RAdd(R(today), ivl)]
        ELSE [card EXCEPT !.due = card.odue], LAMBDA c1 :
    Let(IF c1.odid # 0
        THEN [c1 EXCEPT !.did = c1.odid, !.odid = 0, !.odue = R(0)]
        ELSE c1, LAMBDA c2 :
        Outcome(c2, <<>>, 0, FALSE, FALSE))))

answerRevCard(card, ease, r) ==
    IF ease = BUTTON_ONE THEN rescheduleLapse(card)
    ELSE rescheduleRev(card, ease, r)

rescheduleNew(card, c, early, r) ==
    Let(graduatingIvl(card, c, early, r), LAMBDA ivl :
        [card EXCEPT !.ivl = ivl,
                     !.due = RAdd(R(today), ivl),
                     !.factor = c.initialFactor])

\* _rescheduleAsRev that gives a lapsed card its saved review due date as it
\* is, in the past or not
rescheduleAsRevDueKept(card, c, early, r) ==
    Let(card.type = CARD_DUE, LAMBDA lapse :
    Let(IF lapse
        THEN [card EXCEPT !.due = card.odue, !.odue = R(0)]
        ELSE rescheduleNew(card, c, early, r), LAMBDA c1 :
    Let([c1 EXCEPT !.queue = QUEUE_REV, !.type = CARD_DUE], LAMBDA c2 :
    Let(~resched(c2) /\ ~lapse, LAMBDA back :
    Let(IF c2.odid # 0
        THEN [c2 EXCEPT !.did = c2.odid, !.odue = R(0), !.odid = 0,
                        !.queue = IF back THEN QUEUE_NEW_CRAM ELSE c2.queue,
                        !.type = IF back THEN CARD_NEW ELSE c2.type,
                        !.due = IF back THEN R(nextPos) ELSE c2.due]
        ELSE c2, LAMBDA c3 :
        Outcome(c3, <<>>, 0, FALSE, c2.odid # 0 /\ back))))))

rescheduleAsRev(card, c, early, r) ==
    Let(card.type = CARD_DUE, LAMBDA lapse :
    Let(IF lapse
        THEN [card EXCEPT
                !.due = IF resched(card)
                        THEN RMax(R(today + 1), card.odue)
                        ELSE card.odue,
                !.odue = R(0)]
        ELSE rescheduleNew(card, c, early, r), LAMBDA c1 :
    Let([c1 EXCEPT !.queue = QUEUE_REV, !.type = CARD_DUE], LAMBDA c2 :
    Let(~resched(c2) /\ ~lapse, LAMBDA back :
    Let(IF c2.odid # 0
        THEN [c2 EXCEPT !.did = c2.odid, !.odue = R(0), !.odid = 0,
                        !.queue = IF back THEN QUEUE_NEW_CRAM ELSE c2.queue,
                        !.type = IF back THEN CARD_NEW ELSE c2.type,
                        !.due = IF back THEN R(nextPos) ELSE c2.due]
        ELSE c2, LAMBDA c3 :
        Outcome(c3, <<>>, 0, FALSE, c2.odid # 0 /\ back))))))

\* _answerLrnCard that takes ease 4 for an immediate graduation as well
answerLrnCardEasyFour(card, ease, r, f) ==
    Let(lrnConf(card), LAMBDA c :
    Let((card.left % LeftBase) - 1, LAMBDA left2 :
        IF ease >= BUTTON_THREE THEN rescheduleAsRev(card, c, TRUE, r)
        ELSE IF ease = BUTTON_TWO /\ left2 <= 0 THEN rescheduleAsRev(card, c, FALSE, r)
        ELSE
    Let(resched(card), LAMBDA rs :
    Let(IF ease = BUTTON_TWO
        THEN [card EXCEPT !.left = leftToday(c.delays, left2) * LeftBase + left2]
        ELSE [card EXCEPT
                !.left = startingLeft(card),
                !.ivl = IF c.hasMult /\ rs
                        THEN RMax(RMax(R(1), R(c.minInt)), RMul(card.ivl, c.mult))
                        ELSE card.ivl,
                !.odue = IF rs /\ card.odid # 0 THEN R(today + 1) ELSE card.odue],
        LAMBDA c1 :
    Let(delayForGrade(c, c1.left), LAMBDA delay :
    Let(IF RLt(card.due, R(now)) THEN RMul(R(delay), f) ELSE R(delay),
        LAMBDA delay2 :
        enqueueLrn(c1, RInt(RAdd(R(now), delay2)), TRUE)))))))

\* r: the draw of the interval fuzz; f: the draw of random.uniform(1, 1.25)
answerLrnCard(card, ease, r, f) ==
    Let(lrnConf(card), LAMBDA c :
    Let((card.left % LeftBase) - 1, LAMBDA left2 :
        IF ease = BUTTON_THREE THEN rescheduleAsRev(card, c, TRUE, r)
        ELSE IF ease = BUTTON_TWO /\ left2 <= 0 THEN rescheduleAsRev(card, c, FALSE, r)
        ELSE
    Let(resched(card), LAMBDA rs :
    Let(IF ease = BUTTON_TWO
        THEN [card EXCEPT !.left = leftToday(c.delays, left2) * LeftBase + left2]
        ELSE [card EXCEPT
                !.left = startingLeft(card),
                !.ivl = IF c.hasMult /\ rs
                        THEN RMax(RMax(R(1), R(c.minInt)), RMul(card.ivl, c.mult))
                        ELSE card.ivl,
                !.odue = IF rs /\ card.odid # 0 THEN R(today + 1) ELSE card.odue],
        LAMBDA c1 :
    Let(delayForGrade(c, c1.left), LAMBDA delay :
    Let(IF RLt(card.due, R(now)) THEN RMul(R(delay), f) ELSE R(delay),
        LAMBDA delay2 :
        enqueueLrn(c1, RInt(RAdd(R(now), delay2)), TRUE)))))))

\* the head of answerCard that does not set the steps left
fromNewQueueNoSteps(card) ==
    [card EXCEPT !.queue = QUEUE_LRN,
                 !.type = IF card.type = CARD_NEW THEN CARD_LRN ELSE card.type]

\* the head of answerCard for a card from the new queue
fromNewQueue(card) ==
    Let([card EXCEPT !.queue = QUEUE_LRN,
                     !.type = IF card.type = CARD_NEW THEN CARD_LRN ELSE card.type],
        LAMBDA c1 :
    Let([c1 EXCEPT !.left = startingLeft(c1)], LAMBDA c2 :
        IF c2.odid # 0 /\ c2.type = CARD_DUE /\ resched(c2)
        THEN Let(dynIvlBoost(c2), LAMBDA ivl :
                 [c2 EXCEPT !.ivl = ivl, !.odue = RAdd(R(today), ivl)])
        ELSE c2))

(***************************************************************************)
(* Operations on the card rows (the SQL updates).  db is the card table.   *)
(***************************************************************************)
\* the ids of a set, in ascending order
RECURSIVE SortedIds(_)
SortedIds(S) ==
    IF S = {} THEN <<>>
    ELSE LET m == CHOOSE x \in S : \A y \in S : x <= y
         IN  <<m>> \o SortedIds(S \ {m})

\* emptyDyn's update with queue = type for every row
emptyDynRowQueueIsType(row) ==
    [row EXCEPT !.did = row.odid,
                !.queue = row.type,
                !.due = row.odue,
                !.odue = R(0),
                !.odid = 0]

\* the row update of emptyDyn
emptyDynRow(row) ==
    [row EXCEPT !.did = row.odid,
                !.queue = IF row.type = CARD_LRN THEN QUEUE_NEW_CRAM ELSE row.type,
                !.type = IF row.type = CARD_LRN THEN CARD_NEW ELSE row.type,
                !.due = row.odue,
                !.odue = R(0),
                !.odid = 0]

\* emptyDyn over the rows that its "lim" clause selects
emptyDynWhere(db, sel) ==
    [c \in DOMAIN db |-> IF c \in sel THEN emptyDynRow(db[c]) ELSE db[c]]

emptyDyn(db, did) ==
    emptyDynWhere(db, {c \in DOMAIN db : db[c].did = did})

remFromDyn(db, ids) ==
    emptyDynWhere(db, {c \in ids : db[c].odid # 0})

\* _moveToDyn that keeps every review card in the review queue
moveToDynAllReview(db, did, ids) ==
    [c \in DOMAIN db |->
        IF \E i \in 1..Len(ids) : ids[i] = c
        THEN [db[c] EXCEPT
                !.odid = IF db[c].odid # 0 THEN db[c].odid ELSE db[c].did,
                !.odue = IF ~RIsZero(db[c].odue) THEN db[c].odue ELSE db[c].due,
                !.did = did,
                !.queue = IF db[c].type = CARD_DUE
                          THEN QUEUE_REV ELSE QUEUE_NEW_CRAM,
                !.due = R(DynDueBase + (CHOOSE j \in 1..Len(ids) : ids[j] = c) - 1)]
        ELSE db[c]]

\* _moveToDyn that does not record the original due
moveToDynKeepOdue(db, did, ids) ==
    [c \in DOMAIN db |->
        IF \E i \in 1..Len(ids) : ids[i] = c
        THEN [db[c] EXCEPT
                !.odid = IF db[c].odid # 0 THEN db[c].odid ELSE db[c].did,
                !.did = did,
                !.queue = IF db[c].type = CARD_DUE /\ RLe(db[c].due, R(today))
                          THEN QUEUE_REV ELSE QUEUE_NEW_CRAM,
                !.due = R(DynDueBase + (CHOOSE j \in 1..Len(ids) : ids[j] = c) - 1)]
        ELSE db[c]]

\* the rows _moveToDyn writes; ids is the list findCards returned
moveToDyn(db, did, ids) ==
    [c \in DOMAIN db |->
        IF \E i \in 1..Len(ids) : ids[i] = c
        THEN LET i == CHOOSE j \in 1..Len(ids) : ids[j] = c
                 row == db[c]
                 dueNow == IF ~RIsZero(row.odue) THEN RLe(row.odue, R(today))
                           ELSE RLe(row.due, R(today))
             IN  [row EXCEPT
                    !.odid = IF row.odid # 0 THEN row.odid ELSE row.did,
                    !.odue = IF ~RIsZero(row.odue) THEN row.odue ELSE row.due,
                    !.did = did,
                    !.queue = IF row.type = CARD_DUE /\ dueNow
                              THEN QUEUE_REV ELSE QUEUE_NEW_CRAM,
                    !.due = R(DynDueBase + (i - 1))]
        ELSE db[c]]

\* forgetCards: back to new cards, placed after the last new card
forgetCards(db, ids) ==
    Let(remFromDyn(db, ids), LAMBDA db1 :
    Let([c \in DOMAIN db |->
           IF c \in ids
           THEN [db1[c] EXCEPT !.type = CARD_NEW, !.queue = QUEUE_NEW_CRAM,
                               !.ivl = R(0), !.due = R(0), !.odue = R(0),
                               !.factor = STARTING_FACTOR]
           ELSE db1[c]], LAMBDA db2 :
    Let({RInt(db2[c].due) : c \in {x \in DOMAIN db : db2[x].type = CARD_NEW}},
        LAMBDA newDues :
    Let(IF newDues = {} THEN 0
        ELSE CHOOSE m \in newDues : \A y \in newDues : y <= m, LAMBDA pmax :
    Let(SortedIds({NoteOf(c) : c \in ids}), LAMBDA nids :
        [c \in DOMAIN db |->
           IF c \in ids
           THEN [db2[c] EXCEPT !.due =
                   R(pmax + (CHOOSE i \in 1..Len(nids) : nids[i] = NoteOf(c)))]
           ELSE db2[c]])))))

\* removeLrn that leaves odue on the review cards it takes out of relearning
removeLrnKeepOdue(db, ids) ==
    Let([c \in DOMAIN db |->
           IF /\ c \in ids
              /\ db[c].queue \in {QUEUE_LRN, QUEUE_DAY_LRN}
              /\ db[c].type = CARD_DUE
           THEN [db[c] EXCEPT !.due = db[c].odue, !.queue = QUEUE_REV]
           ELSE db[c]], LAMBDA db1 :
    Let({c \in ids : db1[c].queue \in {QUEUE_LRN, QUEUE_DAY_LRN}}, LAMBDA rest :
        IF rest = {} THEN db1 ELSE forgetCards(db1, rest)))

removeLrn(db, ids) ==
    Let([c \in DOMAIN db |->
           IF /\ c \in ids
              /\ db[c].queue \in {QUEUE_LRN, QUEUE_DAY_LRN}
              /\ db[c].type = CARD_DUE
           THEN [db[c] EXCEPT !.due = db[c].odue, !.queue = QUEUE_REV,
                              !.odue = R(0)]
           ELSE db[c]], LAMBDA db1 :
    Let({c \in ids : db1[c].queue \in {QUEUE_LRN, QUEUE_DAY_LRN}}, LAMBDA rest :
        IF rest = {} THEN db1 ELSE forgetCards(db1, rest)))

setQueue(db, ids, queue) ==
    [c \in DOMAIN db |-> IF c \in ids THEN [db[c] EXCEPT !.queue = queue] ELSE db[c]]

suspendCards(db, ids) ==
    setQueue(removeLrn(remFromDyn(db, ids), ids), ids, QUEUE_SUSPENDED)

unsuspendCards(db, ids) ==
    [c \in DOMAIN db |->
        IF c \in ids /\ db[c].queue = QUEUE_SUSPENDED
        THEN [db[c] EXCEPT !.queue = db[c].type] ELSE db[c]]

\* buryCards with the queue of the scheduler's own burying
buryCardsSched(db, cids) ==
    setQueue(removeLrn(remFromDyn(db, cids), cids), cids, QUEUE_SCHED_BURIED)

buryCards(db, cids) ==
    setQueue(removeLrn(remFromDyn(db, cids), cids), cids, QUEUE_USER_BURIED)

unburyCards(db) ==
    [c \in DOMAIN db |->
        IF db[c].queue = QUEUE_USER_BURIED
        THEN [db[c] EXCEPT !.queue = db[c].type] ELSE db[c]]

\* the siblings of the card that the answer discards from the queues
siblings(db, card) ==
    {c \in DOMAIN db : /\ NoteOf(c) = NoteOf(card.id)
                   /\ c # card.id
                   /\ db[c].queue \in {QUEUE_NEW_CRAM, QUEUE_REV}}

\* the siblings that get buried
toBury(db, card) ==
    {c \in siblings(db, card) :
        IF db[c].queue = QUEUE_REV THEN conf.revBury ELSE conf.newBury}

burySiblings(db, card) ==
    setQueue(db, toBury(db, card), QUEUE_USER_BURIED)

\* the cards findCards may return for a filtered deck, whatever its search
dynCandidates(db) ==
    {c \in DOMAIN db : /\ db[c].queue \notin
                        {QUEUE_SUSPENDED, QUEUE_USER_BURIED, QUEUE_SCHED_BURIED}
                   /\ ~IsDyn(db[c].did)
                   /\ db[c].queue \notin {QUEUE_LRN, QUEUE_DAY_LRN}}

(***************************************************************************)
(* Daily limits and counts.  stats is the decks' counters.                 *)
(***************************************************************************)
deckNewLimitSingleNoFloor(stats, did) ==
    IF IsDyn(did) THEN reportLimit
    ELSE LET nbNewToSee == conf.newPerDay - stats[did].newToday[2]
             nbCardToSee == conf.perDayAll - stats[did].revToday[2]
                              - stats[did].newToday[2]
         IN  IF conf.limitAllCards THEN Min(nbNewToSee, nbCardToSee)
             ELSE nbNewToSee

deckNewLimitSingle(stats, did) ==
    IF IsDyn(did) THEN reportLimit
    ELSE LET nbNewToSee == conf.newPerDay - stats[did].newToday[2]
             nbCardToSee == conf.perDayAll - stats[did].revToday[2]
                              - stats[did].newToday[2]
             limit == IF conf.limitAllCards THEN Min(nbNewToSee, nbCardToSee)
                      ELSE nbNewToSee
         IN  Max(0, limit)

deckRevLimitSingle(stats, did) ==
    IF IsDyn(did) THEN reportLimit
    ELSE LET nbRevToSee == conf.revPerDay - stats[did].revToday[2]
             nbCardToSee == conf.perDayAll - stats[did].revToday[2]
                              - stats[did].newToday[2]
             limit == IF conf.limitAllCards THEN Min(nbRevToSee, nbCardToSee)
                      ELSE nbRevToSee
         IN  Max(0, limit)

\* the least of the single-deck limits lim[d] over the deck and its parents
RECURSIVE MinOver(_, _)
MinOver(lim, dids) ==
    IF Len(dids) = 1 THEN lim[dids[1]]
    ELSE Min(lim[dids[1]], MinOver(lim, Tail(dids)))

deckNewLimit(stats, did) ==
    MinOver([d \in Dids |-> deckNewLimitSingle(stats, d)], DeckAndParents(did))

deckRevLimit(stats, did) ==
    MinOver([d \in Dids |-> deckRevLimitSingle(stats, d)], DeckAndParents(did))

\* "select count() from (select ... limit lim)"
CountUpTo(S, lim) == IF lim < 0 THEN Cardinality(S) ELSE Min(Cardinality(S), lim)

dueRev(db, td, did) ==
    {c \in DOMAIN db : db[c].did = did /\ db[c].queue = QUEUE_REV /\ RLe(db[c].due, R(td))}

newIn(db, did) ==
    {c \in DOMAIN db : db[c].did = did /\ db[c].queue = QUEUE_NEW_CRAM}

\* _walkingCount over the active decks: the regular deck, then the
\* filtered deck below it, which draws on what the parent has left;
\* lim[d] is the single-deck limit of deck d, rows[d] the rows it counts
walkingCount(lim, rows) ==
    Let(lim[HomeDid], LAMBDA limH :
    Let(IF limH = 0 THEN 0 ELSE CountUpTo(rows[HomeDid], limH), LAMBDA cntH :
    Let(limH - cntH, LAMBDA leftH :
    Let(lim[DynDid], LAMBDA limD0 :
    Let(Min(leftH, limD0), LAMBDA limD :
    Let(IF limD0 = 0 THEN 0 ELSE CountUpTo(rows[DynDid], limD), LAMBDA cntD :
        cntH + cntD))))))

resetRevCountAnyQueue(db, td, stats) ==
    walkingCount([d \in Dids |-> deckRevLimitSingle(stats, d)],
                 [d \in Dids |-> {c \in DOMAIN db : db[c].did = d /\ db[c].type = CARD_DUE}])

resetRevCount(db, td, stats) ==
    walkingCount([d \in Dids |-> deckRevLimitSingle(stats, d)],
                 [d \in Dids |-> dueRev(db, td, d)])

resetNewCount(db, stats) ==
    walkingCount([d \in Dids |-> deckNewLimitSingle(stats, d)],
                 [d \in Dids |-> newIn(db, d)])

RECURSIVE SumLeft(_, _)
SumLeft(db, S) ==
    IF S = {} THEN 0
    ELSE LET c == CHOOSE x \in S : TRUE
         IN  (db[c].left \div LeftBase) + SumLeft(db, S \ {c})

InActive(did) == \E i \in 1..Len(ActiveDecks) : ActiveDecks[i] = did

lrnToday(db, cutoff) ==
    {c \in DOMAIN db : /\ InActive(db[c].did)
                   /\ db[c].queue = QUEUE_LRN
                   /\ RLt(db[c].due, R(cutoff))}

dayLrnIn(db, td, did) ==
    {c \in DOMAIN db : /\ db[c].did = did
                   /\ db[c].queue = QUEUE_DAY_LRN
                   /\ RLe(db[c].due, R(td))}

(***************************************************************************)
(* The deck list.  Its decks are a regular deck, a filtered deck and a     *)
(* regular deck below it, and a regular deck below the latter; a name is   *)
(* the sequence of its parts between "::".                                 *)
(***************************************************************************)
SubDid == DynDid + 1
LeafDid == SubDid + 1
TreeDids == {HomeDid, DynDid, SubDid, LeafDid}
DeckName(did) ==
    CASE did = HomeDid -> <<1>>
      [] did = DynDid -> <<1, 1>>
      [] did = SubDid -> <<1, 2>>
      [] did = LeafDid -> <<1, 2, 1>>

\* the order of names: a name sorts before the names it is a prefix of
RECURSIVE NameLess(_, _)
NameLess(a, b) ==
    IF a = <<>> THEN b # <<>>
    ELSE IF b = <<>> THEN FALSE
    ELSE IF a[1] # b[1] THEN a[1] < b[1]
    ELSE NameLess(Tail(a), Tail(b))

\* decks.sort(key=itemgetter('name'))
RECURSIVE SortByName(_)
SortByName(S) ==
    IF S = {} THEN <<>>
    ELSE LET d == CHOOSE x \in S :
                    \A y \in S \ {x} : NameLess(DeckName(x), DeckName(y))
         IN  <<d>> \o SortByName(S \ {d})

\* the top of the name taken for its parent
parentTop(name) ==
    IF Len(name) < 2 THEN <<>> ELSE SubSeq(name, 1, 1)

\* parent(name) of deckDueList: the name without its last part, <<>> for None
parent(name) ==
    IF Len(name) < 2 THEN <<>> ELSE SubSeq(name, 1, Len(name) - 1)

newForDeck(db, did, lim) ==
    IF lim = 0 THEN 0 ELSE CountUpTo(newIn(db, did), Min(lim, reportLimit))

lrnForDeck(db, nw, td, did) ==
    SumLeft(db, {c \in DOMAIN db : /\ db[c].did = did
                                   /\ db[c].queue = QUEUE_LRN
                                   /\ RLt(db[c].due, R(nw + conf.collapseTime))})
      + CountUpTo(dayLrnIn(db, td, did), reportLimit)

revForDeck(db, td, did, lim) ==
    CountUpTo(dueRev(db, td, did), Min(lim, reportLimit))

\* lims[p] of deckDueList: the limits recorded under the name p; a name not
\* recorded raises KeyError
KeyError == <<-1, -1>>
LimsOf(lims, p) ==
    IF \E i \in 1..Len(lims) : lims[i][1] = p
    THEN lims[CHOOSE i \in 1..Len(lims) : lims[i][1] = p][2]
    ELSE KeyError

\* the loop of deckDueList over the decks left, with lims and data so far;
\* a row of data is <<name, did, rev, lrn, new>>
RECURSIVE deckDueListFrom(_, _, _, _, _, _, _)
deckDueListFrom(decks, lims, data, db, nw, td, stats) ==
    IF decks = <<>> THEN [data |-> data, lims |-> lims]
    ELSE
    Let(decks[1], LAMBDA did :
    Let(parent(DeckName(did)), LAMBDA p :
    Let(IF p # <<>> THEN Min(deckNewLimitSingle(stats, did), LimsOf(lims, p)[1])
        ELSE deckNewLimitSingle(stats, did), LAMBDA nlim :
    Let(IF p # <<>> THEN Min(deckRevLimitSingle(stats, did), LimsOf(lims, p)[2])
        ELSE deckRevLimitSingle(stats, did), LAMBDA rlim :
        deckDueListFrom(Tail(decks),
                        Append(lims, <<DeckName(did), <<nlim, rlim>>>>),
                        Append(data, <<DeckName(did), did,
                                       revForDeck(db, td, did, rlim),
                                       lrnForDeck(db, nw, td, did),
                                       newForDeck(db, did, nlim)>>),
                        db, nw, td, stats)))))

deckDueList(db, nw, td, stats) ==
    deckDueListFrom(SortByName(TreeDids), <<>>, <<>>, db, nw, td, stats)

\* grps.sort(key=itemgetter(0)) of _groupChildren, the names being split
RECURSIVE SortRows(_)
SortRows(S) ==
    IF S = {} THEN <<>>
    ELSE LET r == CHOOSE x \in S : \A y \in S \ {x} : NameLess(x[1], y[1])
         IN  <<r>> \o SortRows(S \ {r})

\* the length of the run of rows at the head of grps whose first part is head
RECURSIVE RunLen(_, _)
RunLen(grps, head) ==
    IF grps = <<>> \/ grps[1][1][1] # head THEN 0
    ELSE 1 + RunLen(Tail(grps), head)

RECURSIVE SumField(_, _)
SumField(rows, k) ==
    IF rows = <<>> THEN 0 ELSE rows[1][k] + SumField(Tail(rows), k)

SelectRows(rows, Test(_)) == SelectSeq(rows, Test)

capToLimitNoFloor(stats, did, kind, cnt) ==
    IF IsDyn(did) THEN cnt
    ELSE IF kind = "rev"
         THEN Min(cnt, conf.revPerDay - stats[did].revToday[2])
         ELSE Min(cnt, conf.newPerDay - stats[did].newToday[2])

\* the limit of the counts of a node to the limits of its deck
capToLimit(stats, did, kind, cnt) ==
    IF IsDyn(did) THEN cnt
    ELSE IF kind = "rev"
         THEN Max(0, Min(cnt, conf.revPerDay - stats[did].revToday[2]))
         ELSE Max(0, Min(cnt, conf.newPerDay - stats[did].newToday[2]))

\* a node is <<head, did, rev, lrn, new, children>>
RECURSIVE groupChildrenMain(_, _)
groupChildrenMain(grps, stats) ==
    IF grps = <<>> THEN <<>>
    ELSE
    Let(grps[1][1][1], LAMBDA head :
    Let(RunLen(grps, head), LAMBDA n :
    Let(SubSeq(grps, 1, n), LAMBDA tail :
    Let(SelectRows(tail, LAMBDA c : Len(c[1]) = 1), LAMBDA own :
    Let(groupChildrenMain(
            [i \in 1..Len(SelectRows(tail, LAMBDA c : Len(c[1]) # 1)) |->
                Let(SelectRows(tail, LAMBDA c : Len(c[1]) # 1)[i], LAMBDA c :
                    [c EXCEPT ![1] = Tail(c[1])])],
            stats), LAMBDA children :
    Let(own[Len(own)][2], LAMBDA did :
        <<<<head, did,
            capToLimit(stats, did, "rev", SumField(own, 3) + SumField(children, 3)),
            SumField(own, 4) + SumField(children, 4),
            capToLimit(stats, did, "new", SumField(own, 5) + SumField(children, 5)),
            children>>>>
          \o groupChildrenMain(SubSeq(grps, n + 1, Len(grps)), stats)))))))

groupChildren(grps, stats) ==
    groupChildrenMain(SortRows({grps[i] : i \in 1..Len(grps)}), stats)

deckDueTree(db, nw, td, stats) ==
    groupChildren(deckDueList(db, nw, td, stats).data, stats)

\* the count with one for each card that waits in learning today, whatever
\* the steps it has left
resetLrnCountCards(db, td, cutoff) ==
    Cardinality(lrnToday(db, cutoff))
      + Cardinality(UNION {dayLrnIn(db, td, ActiveDecks[i]) : i \in 1..Len(ActiveDecks)})

resetLrnCount(db, td, cutoff) ==
    SumLeft(db, lrnToday(db, cutoff))
      + Cardinality(UNION {dayLrnIn(db, td, ActiveDecks[i]) : i \in 1..Len(ActiveDecks)})

(***************************************************************************)
(* The in-memory queues.  q is the record of the scheduler's queues and    *)
(* counters; every operator gives the record after the call, with "got"    *)
(* set to the id of the card returned (0 for None).                        *)
(***************************************************************************)
\* the rows of S in the order of the index on (due, id)
RECURSIVE ByDue(_, _)
ByDue(db, S) ==
    IF S = {} THEN <<>>
    ELSE LET m == CHOOSE x \in S : \A y \in S :
                    \/ RLt(db[x].due, db[y].due)
                    \/ (db[x].due = db[y].due /\ x <= y)
         IN  <<m>> \o ByDue(db, S \ {m})

Reverse(seq) == [i \in 1..Len(seq) |-> seq[Len(seq) - i + 1]]

FirstN(seq, n) == SubSeq(seq, 1, Min(Len(seq), n))

\* random.Random(seed).shuffle: a permutation fixed by the seed and the length
Shuffle(seq, seed) ==
    LET n == Len(seq)
        k == IF n = 0 THEN 0 ELSE seed % n
    IN  [i \in 1..n |-> seq[((i - 1 + k) % n) + 1]]

Sched ==
    [lrnQueue |-> lrnQueue, lrnDayQueue |-> lrnDayQueue, revQueue |-> revQueue,
     newQueue |-> newQueue, lrnDids |-> lrnDids, revDids |-> revDids,
     newDids |-> newDids, lrnCount |-> lrnCount, revCount |-> revCount,
     newCount |-> newCount, got |-> 0, resets |-> 0]

resetLrn(q, db, td, cutoff) ==
    [q EXCEPT !.lrnCount = resetLrnCount(db, td, cutoff),
              !.lrnQueue = <<>>, !.lrnDayQueue = <<>>, !.lrnDids = ActiveDecks]

resetRev(q, db, td, stats) ==
    [q EXCEPT !.revCount = resetRevCount(db, td, stats),
              !.revQueue = <<>>, !.revDids = ActiveDecks]

resetNew(q, db, stats) ==
    [q EXCEPT !.newCount = resetNewCount(db, stats),
              !.newDids = ActiveDecks, !.newQueue = <<>>]

\* the heap made of the rows, pushed in the order of ids
RECURSIVE Heapify(_, _, _)
Heapify(db, ids, h) ==
    IF ids = <<>> THEN h
    ELSE Heapify(db, Tail(ids), heappush(h, <<RInt(db[Head(ids)].due), Head(ids)>>))

fillLrn(q, db, cutoff) ==
    IF q.lrnCount = 0 \/ q.lrnQueue # <<>> THEN q
    ELSE [q EXCEPT !.lrnQueue =
             Heapify(db, SortedIds(lrnToday(db, cutoff)), <<>>)]

getLrnCard(q, db, cutoff, collapse) ==
    Let(fillLrn(q, db, cutoff), LAMBDA q1 :
    Let(IF collapse THEN now + conf.collapseTime ELSE now, LAMBDA limit :
        IF q1.lrnCount # 0 /\ q1.lrnQueue # <<>> /\ q1.lrnQueue[1][1] < limit
        THEN Let(q1.lrnQueue[1][2], LAMBDA id :
                 [q1 EXCEPT !.lrnQueue = Tail(q1.lrnQueue),
                            !.lrnCount = q1.lrnCount - (db[id].left \div LeftBase),
                            !.got = id])
        ELSE q1))

\* one pass of the loop of _fillRev over _revDids
RECURSIVE fillRevLoop(_, _, _, _)
fillRevLoop(q, db, td, stats) ==
    IF q.revDids = <<>> THEN q
    ELSE
    Let(q.revDids[1], LAMBDA did :
    Let(Min(queueLimit, deckRevLimit(stats, did)), LAMBDA lim :
    Let(FirstN(ByDue(db, dueRev(db, td, did)), lim), LAMBDA rows :
        IF lim # 0 /\ rows # <<>>
        THEN [q EXCEPT !.revQueue = IF IsDyn(did) THEN Reverse(rows)
                                    ELSE Shuffle(rows, td),
                       !.revDids = IF Len(rows) < lim THEN Tail(q.revDids)
                                   ELSE q.revDids]
        ELSE fillRevLoop([q EXCEPT !.revDids = Tail(q.revDids)], db, td, stats))))

\* _fillRev; "depth" counts the resets already made by this request
RECURSIVE fillRev(_, _, _, _, _)
fillRev(q, db, td, stats, depth) ==
    IF q.revQueue # <<>> \/ q.revCount = 0 THEN q
    ELSE Let(fillRevLoop(q, db, td, stats), LAMBDA q1 :
             IF q1.revQueue # <<>> \/ depth >= 2 THEN q1
             ELSE fillRev([resetRev(q1, db, td, stats) EXCEPT !.resets = @ + 1],
                          db, td, stats, depth + 1))

getRevCard(q, db, td, stats) ==
    Let(fillRev(q, db, td, stats, 0), LAMBDA q1 :
        IF q1.revQueue # <<>>
        THEN [q1 EXCEPT !.revCount = q1.revCount - 1,
                        !.revQueue = SubSeq(q1.revQueue, 1, Len(q1.revQueue) - 1),
                        !.got = q1.revQueue[Len(q1.revQueue)]]
        ELSE q1)

RECURSIVE fillNewLoop(_, _, _)
fillNewLoop(q, db, stats) ==
    IF q.newDids = <<>> THEN q
    ELSE
    Let(q.newDids[1], LAMBDA did :
    Let(Min(queueLimit, deckNewLimit(stats, did)), LAMBDA lim :
    Let(FirstN(ByDue(db, newIn(db, did)), lim), LAMBDA rows :
        IF lim # 0 /\ rows # <<>>
        THEN [q EXCEPT !.newQueue = Reverse(rows)]
        ELSE fillNewLoop([q EXCEPT !.newDids = Tail(q.newDids)], db, stats))))

RECURSIVE fillNew(_, _, _, _)
fillNew(q, db, stats, depth) ==
    IF q.newQueue # <<>> \/ q.newCount = 0 THEN q
    ELSE Let(fillNewLoop(q, db, stats), LAMBDA q1 :
             IF q1.newQueue # <<>> \/ depth >= 2 THEN q1
             ELSE fillNew(resetNew(q1, db, stats), db, stats, depth + 1))

getNewCard(q, db, stats) ==
    Let(fillNew(q, db, stats, 0), LAMBDA q1 :
        IF q1.newQueue # <<>>
        THEN [q1 EXCEPT !.newCount = q1.newCount - 1,
                        !.newQueue = SubSeq(q1.newQueue, 1, Len(q1.newQueue) - 1),
                        !.got = q1.newQueue[Len(q1.newQueue)]]
        ELSE q1)

RECURSIVE fillLrnDayLoop(_, _, _)
fillLrnDayLoop(q, db, td) ==
    IF q.lrnDids = <<>> THEN q
    ELSE
    Let(FirstN(ByDue(db, dayLrnIn(db, td, q.lrnDids[1])), queueLimit), LAMBDA rows :
        IF rows # <<>>
        THEN [q EXCEPT !.lrnDayQueue = Shuffle(rows, td),
                       !.lrnDids = IF Len(rows) < queueLimit THEN Tail(q.lrnDids)
                                   ELSE q.lrnDids]
        ELSE fillLrnDayLoop([q EXCEPT !.lrnDids = Tail(q.lrnDids)], db, td))

fillLrnDay(q, db, td) ==
    IF q.lrnCount = 0 \/ q.lrnDayQueue # <<>> THEN q
    ELSE fillLrnDayLoop(q, db, td)

getLrnDayCard(q, db, td) ==
    Let(fillLrnDay(q, db, td), LAMBDA q1 :
        IF q1.lrnCount # 0 /\ q1.lrnDayQueue # <<>>
        THEN [q1 EXCEPT !.lrnCount = q1.lrnCount - 1,
                        !.lrnDayQueue = SubSeq(q1.lrnDayQueue, 1, Len(q1.lrnDayQueue) - 1),
                        !.got = q1.lrnDayQueue[Len(q1.lrnDayQueue)]]
        ELSE q1)

\* new cards first (newSpread = NEW_CARDS_FIRST) or last (NEW_CARDS_LAST)
timeForNewCard(q) ==
    q.newCount # 0 /\ conf.newFirst

\* _getCard: the next due card id in "got", or 0
getCardReviewFirst(q, db, td, cutoff, stats) ==
    Let(getRevCard(q, db, td, stats), LAMBDA c :
        IF c.got # 0 THEN c ELSE
    Let(getLrnCard(c, db, cutoff, FALSE), LAMBDA a :
        IF a.got # 0 THEN a ELSE
    Let(IF timeForNewCard(a) THEN getNewCard(a, db, stats) ELSE a, LAMBDA b :
        IF b.got # 0 THEN b ELSE
    Let(getLrnDayCard(b, db, td), LAMBDA d :
        IF d.got # 0 THEN d ELSE
    Let(getNewCard(d, db, stats), LAMBDA e :
        IF e.got # 0 THEN e ELSE
        getLrnCard(e, db, cutoff, TRUE))))))

getCard(q, db, td, cutoff, stats) ==
    Let(getLrnCard(q, db, cutoff, FALSE), LAMBDA a :
        IF a.got # 0 THEN a ELSE
    Let(IF timeForNewCard(a) THEN getNewCard(a, db, stats) ELSE a, LAMBDA b :
        IF b.got # 0 THEN b ELSE
    Let(getRevCard(b, db, td, stats), LAMBDA c :
        IF c.got # 0 THEN c ELSE
    Let(getLrnDayCard(c, db, td), LAMBDA d :
        IF d.got # 0 THEN d ELSE
    Let(getNewCard(d, db, stats), LAMBDA e :
        IF e.got # 0 THEN e ELSE
        getLrnCard(e, db, cutoff, TRUE))))))

(***************************************************************************)
(* The day.                                                                *)
(***************************************************************************)
\* update(deck) that moves the day index and keeps the count
rollStatsKeepCount(stats, td) ==
    [d \in Dids |-> [newToday |-> <<td, stats[d].newToday[2]>>,
                     revToday |-> <<td, stats[d].revToday[2]>>,
                     lrnToday |-> <<td, stats[d].lrnToday[2]>>,
                     timeToday |-> <<td, stats[d].timeToday[2]>>]]

\* the counters of every deck after _updateCutoff's update(deck)
rollStats(stats, td) ==
    LET roll(pair) == IF pair[1] # td THEN <<td, 0>> ELSE pair
    IN  [d \in Dids |-> [newToday |-> roll(stats[d].newToday),
                         revToday |-> roll(stats[d].revToday),
                         lrnToday |-> roll(stats[d].lrnToday),
                         timeToday |-> roll(stats[d].timeToday)]]

\* _updateStats(card, type, cnt): the deck of the card and its parents
RECURSIVE updateStats(_, _, _, _)
updateStats(stats, dids, key, cnt) ==
    IF dids = <<>> THEN stats
    ELSE LET d == Head(dids)
             old == stats[d][key]
         IN  updateStats([stats EXCEPT ![d][key] = <<old[1], old[2] + cnt>>],
                         Tail(dids), key, cnt)

\* the count of an answer that reaches the parents and misses the deck itself
countAnswerParentsOnly(stats, card, key) ==
    updateStats(stats, Tail(DeckAndParents(card.did)), key, 1)

\* _updateStats(card, type): one more answer of the kind for the card's deck
countAnswer(stats, card, key) ==
    updateStats(stats, DeckAndParents(card.did), key, 1)

(***************************************************************************)
(* Deck options.  BaseConf holds the defaults of a new collection; Confs   *)
(* are the option sets the model is run with.                              *)
(***************************************************************************)
BaseConf ==
    [newDelays |-> <<1, 10>>, ints |-> <<1, 4>>, initialFactor |-> STARTING_FACTOR,
     newBury |-> TRUE, newPerDay |-> 20, newFirst |-> FALSE,
     revPerDay |-> 100, ease4 |-> <<13, 10>>, ivlFct |-> <<1, 1>>,
     maxIvl |-> 36500, revBury |-> TRUE,
     perDayAll |-> 1000, limitAllCards |-> FALSE,
     lapseDelays |-> <<10>>, mult |-> <<0, 1>>, minInt |-> 1,
     leechFails |-> 8, leechAction |-> LEECH_SUSPEND,
     dynDelays |-> <<>>, resched |-> TRUE,
     spreadRev |-> TRUE, collapseTime |-> 1200]

\* relearning steps, halved lapse interval, early leech, a graduating
\* interval wide enough for the fuzz
ConfLeech ==
    [BaseConf EXCEPT !.mult = <<1, 2>>, !.leechFails = 2, !.ints = <<3, 4>>]

\* no relearning steps, low interval cap, filtered deck without rescheduling
ConfNoSteps ==
    [BaseConf EXCEPT !.lapseDelays = <<>>, !.maxIvl = 6, !.resched = FALSE,
                     !.leechFails = 0, !.spreadRev = FALSE, !.newFirst = TRUE,
                     !.newBury = FALSE, !.revBury = FALSE]

\* a step of one day, minimum lapse interval above the interval cap
ConfLong ==
    [BaseConf EXCEPT !.newDelays = <<1, 1440>>, !.lapseDelays = <<1440>>,
                     !.minInt = 3, !.maxIvl = 2, !.mult = <<1, 2>>,
                     !.leechFails = 2, !.leechAction = LEECH_TAGONLY,
                     !.dynDelays = <<1>>]

Confs == {ConfLeech, ConfNoSteps, ConfLong}

\* no relearning steps, halved lapse interval, no fuzz: the options of a deck
\* whose review card is one lapse short of a leech
ConfNoRelearn ==
    [BaseConf EXCEPT !.lapseDelays = <<>>, !.mult = <<1, 2>>,
                     !.spreadRev = FALSE]

\* the options of ConfLeech with the fuzz off
ConfNoFuzz == [ConfLeech EXCEPT !.spreadRev = FALSE]

\* the same options with a filtered deck that does not reschedule
ConfNoResched == [ConfNoRelearn EXCEPT !.resched = FALSE]

(***************************************************************************)
(* Initial collections.                                                    *)
(***************************************************************************)
\* the clock at the start: noon of day 1 of the collection
NowStart == 129600

\* a new card; positions start at 0
NewCard(c) ==
    [id |-> c, did |-> HomeDid, type |-> CARD_NEW, queue |-> QUEUE_NEW_CRAM,
     due |-> R(c - 1), ivl |-> R(0), factor |-> 0, reps |-> 0, lapses |-> 0,
     left |-> 0, odue |-> R(0), odid |-> 0]

\* a review card, "late" days overdue (not yet due when late < 0)
RevCard(c, ivl, factor, late, lapses) ==
    [id |-> c, did |-> HomeDid, type |-> CARD_DUE, queue |-> QUEUE_REV,
     due |-> R((NowStart \div DaySecs) - late), ivl |-> R(ivl), factor |-> factor,
     reps |-> 1 + lapses, lapses |-> lapses,
     left |-> 0, odue |-> R(0), odid |-> 0]

\* the card as the first card of an earlier build of the filtered deck
Filtered(row) ==
    [row EXCEPT !.odid = row.did, !.odue = row.due, !.did = DynDid,
                !.queue = IF /\ row.type = CARD_DUE
                             /\ RLe(row.due, R(NowStart \div DaySecs))
                          THEN QUEUE_REV ELSE QUEUE_NEW_CRAM,
                !.due = R(DynDueBase)]

\* the states a card may start in
Profiles(c) ==
    {NewCard(c),
     RevCard(c, 2, 2500, 0, 1),
     RevCard(c, 1, 1300, 0, 0),
     RevCard(c, 30, 2000, 12, 0),
     RevCard(c, 5, 1400, 2, 0),
     RevCard(c, 6, 2500, -3, 1),
     Filtered(RevCard(c, 5, 1400, 2, 1)),
     Filtered(RevCard(c, 6, 2500, -3, 0))}

\* a review card two days late with seven lapses, at home and in the
\* filtered deck
NearLeech(c) ==
    {RevCard(c, 10, 2500, 2, 7), Filtered(RevCard(c, 10, 2500, 2, 7))}

\* a review card in the filtered deck whose lapses stand at the threshold
AtLeech(c) == Filtered(RevCard(c, 10, 2500, 2, 8))

\* two new cards of one note
NewPair == <<NewCard(1), NewCard(2)>>

\* a new or review card and a review card of one note
Pairs ==
    {<<NewCard(1), RevCard(2, 2, 2500, 0, 1)>>,
     <<RevCard(1, 2, 2500, 0, 1), RevCard(2, 2, 2500, 0, 1)>>}

\* the collections of one card: every option set with the card in every
\* starting state, and the cards at the leech threshold
OneCard ==
    {<<cf, [c \in {1} |-> p]>> : cf \in Confs, p \in Profiles(1)}
    \cup {<<ConfNoRelearn, [c \in {1} |-> p]>> : p \in NearLeech(1)}
    \cup {<<ConfNoResched, [c \in {1} |-> AtLeech(1)]>>}

\* the collections of two cards of one note: the pairs of cards under the
\* first option set, and the two new cards without fuzz
TwoCards ==
    {<<ConfLeech, [c \in {1, 2} |-> pr[c]]>> : pr \in Pairs}
    \cup {<<ConfNoFuzz, [c \in {1, 2} |-> NewPair[c]]>>}

\* the collections the model starts from
Collections == OneCard \cup TwoCards

\* the options cf with no sibling buried and the fuzz off
NoBury(cf) ==
    [cf EXCEPT !.newBury = FALSE, !.revBury = FALSE, !.spreadRev = FALSE]

\* collections of two cards that wait together: short steps with reviews
\* before new cards, short steps with new cards first, a learning step of one
\* day with a relearning step longer than collapseTime
Unburied ==
    {<<cf, [c \in {1, 2} |-> pr[c]]>> :
        cf \in {NoBury(ConfLeech),
                [NoBury(ConfLeech) EXCEPT !.newFirst = TRUE],
                [NoBury(ConfLong) EXCEPT !.lapseDelays = <<30>>]},
        pr \in Pairs}

(***************************************************************************)
(* Backups (aqt/main.py).  A file of the backup folder is named by its     *)
(* kind and the local time in its name: <<"recent", year, month, day,      *)
(* second of the day>>, <<"daily", year, month, day>>, <<"monthly", year,  *)
(* month>>, <<"yearly", year>>.  files maps the names in the folder to     *)
(* what the file holds: <<>> when it is empty, <<data>> when it is the     *)
(* archive of data.                                                        *)
(***************************************************************************)
\* no backup made and none asked for; last is the local time of the last
\* backup(), setBack tells whether a backup() read a local time before the
\* local time of the backup() before it
NoBackups ==
    [files |-> <<>>, threads |-> {}, started |-> <<>>, pc |-> "idle",
     made |-> {}, unlinked |-> {}, year |-> 0, month |-> 0, day |-> 0,
     calls |-> 0, numBackups |-> 0, longTermBackup |-> FALSE,
     last |-> <<0, 0, 0, 0>>, setBack |-> FALSE]

\* the names of the files in the folder
Listdir(files) == DOMAIN files

\* the order of the names as strings, for two names of recent backups
RECURSIVE StampLess(_, _)
StampLess(a, b) ==
    IF a = <<>> THEN FALSE
    ELSE IF a[1] # b[1] THEN a[1] < b[1]
    ELSE StampLess(Tail(a), Tail(b))

\* backups.sort() over the names S
RECURSIVE SortNames(_)
SortNames(S) ==
    IF S = {} THEN <<>>
    ELSE LET f == CHOOSE x \in S : \A y \in S \ {x} : StampLess(Tail(x), Tail(y))
         IN  <<f>> \o SortNames(S \ {f})

\* the names createBackups asks for at the local time t
filesToCreate(bk, t) ==
    {<<"recent", t.year, t.month, t.day, t.sec>>}
      \cup (IF bk.longTermBackup
            THEN {<<"yearly", bk.year>>, <<"monthly", bk.year, bk.month>>,
                  <<"daily", bk.year, bk.month, bk.day>>}
            ELSE {})

\* BackupThread(newpath, data): the file is created empty by the caller
\* and the thread started, for the names that are not in the folder
createBackups(bk, t, data) ==
    Let({f \in filesToCreate(bk, t) : f \notin Listdir(bk.files)}, LAMBDA new :
        [bk EXCEPT
            !.files = [f \in Listdir(bk.files) \cup new |->
                          IF f \in new THEN <<>> ELSE bk.files[f]],
            !.threads = bk.threads \cup
                          {[path |-> f, data |-> data, call |-> bk.calls] : f \in new},
            !.started = [f \in DOMAIN bk.started \cup new |->
                            (IF f \in DOMAIN bk.started THEN bk.started[f] ELSE 0)
                              + (IF f \in new THEN 1 ELSE 0)],
            !.made = new])

\* os.unlink of the names of S
Unlink(bk, S) ==
    [bk EXCEPT !.files = [f \in Listdir(bk.files) \ S |-> bk.files[f]],
               !.unlinked = bk.unlinked \cup S]

cleanRecentBackup(bk) ==
    IF bk.numBackups = 0 THEN bk
    ELSE Let(SortNames({f \in Listdir(bk.files) : f[1] = "recent"}), LAMBDA bs :
             IF Len(bs) > bk.numBackups
             THEN Unlink(bk, {bs[i] : i \in 1..(Len(bs) - bk.numBackups)})
             ELSE bk)

nbDayInMonth == <<31, 29, 31, 30, 31, 30, 31, 31, 30, 31, 30, 31>>

monthsToKeep(bk) ==
    {IF nbMonth < bk.month THEN <<bk.year, bk.month - nbMonth>>
     ELSE <<bk.year - 1, bk.month - nbMonth + 12>> : nbMonth \in 0..11}

daysToKeep(bk) ==
    Let(nbDayInMonth[((bk.month + 10) % 12) + 1], LAMBDA nbDayPreviousMonth :
        {IF nbDay < bk.day THEN <<bk.year, bk.month, bk.day - nbDay>>
         ELSE IF bk.month = 1
              THEN <<bk.year - 1, 12, bk.day - nbDay + nbDayPreviousMonth>>
              ELSE <<bk.year, bk.month - 1, bk.day - nbDay + nbDayPreviousMonth>> :
            nbDay \in 0..(nbDayInMonth[bk.month] - 1)})

filesToKeep(bk) ==
    {<<"monthly">> \o ym : ym \in monthsToKeep(bk)}
      \cup {<<"daily">> \o ymd : ymd \in daysToKeep(bk)}

\* the files whose name starts with "backup-monthy-" (no file of the folder
\* does) or with "backup-daily-" and that are not to be kept are unlinked
cleanLongTermBackup(bk) ==
    Unlink(bk, {f \in Listdir(bk.files) :
                    f[1] = "daily" /\ f \notin filesToKeep(bk)})

\* BackupThread.run: the archive of the thread's data is written at the
\* thread's path.  When the file was unlinked since the thread was started,
\* the archive is written to a new file of that name, or, when the thread had
\* opened the file before (early), to the file that is no more in the folder
run(bk, th, early) ==
    IF th.path \notin Listdir(bk.files) /\ early
    THEN [bk EXCEPT !.threads = bk.threads \ {th}]
    ELSE [bk EXCEPT !.files = [f \in Listdir(bk.files) \cup {th.path} |->
                                  IF f = th.path THEN <<th.data>> ELSE bk.files[f]],
                    !.threads = bk.threads \ {th}]

\* relearning in and out of the filtered deck: the options with one
\* relearning step and the lapse interval halved, the filtered deck
\* rescheduling or not, and a card that is new, a review at home or a review
\* in the filtered deck, its interval even or odd, its lapses none or at
\* leechFails
Cram ==
    {<<[ConfNoFuzz EXCEPT !.resched = rs], [c \in {1} |-> p]>> :
        rs \in BOOLEAN,
        p \in {NewCard(1), Filtered(NewCard(1)),
               RevCard(1, 6, 2500, 2, 0), RevCard(1, 5, 1400, 2, 0),
               Filtered(RevCard(1, 6, 2500, 2, 0)),
               Filtered(RevCard(1, 5, 1400, 2, 0)),
               Filtered(RevCard(1, 6, 2500, 2, 2))}}

ZeroStats(td) ==
    [d \in Dids |-> [newToday |-> <<td, 0>>, revToday |-> <<td, 0>>,
                     lrnToday |-> <<td, 0>>, timeToday |-> <<td, 0>>]]

\* the last call: its name, the card and ease given to answerCard ("before" is
\* the card as it was given), the ids given to the other calls, whether the
\* call ran the "leech" hook, the inserts into the revlog that failed, the
\* calls of _resetRev that _fillRev made
NoOp ==
    [name |-> "init", cid |-> 0, ease |-> 0, ids |-> {}, before |-> NoCard,
     leech |-> FALSE, fails |-> 0, resets |-> 0]

\* the collection just opened: no card taken, no queue built yet
InitFrom(cols) ==
    /\ \E col \in cols : conf = col[1] /\ cards = col[2]
    /\ cur = NoCard
    /\ lrnQueue = <<>> /\ lrnDayQueue = <<>> /\ revQueue = <<>> /\ newQueue = <<>>
    /\ lrnDids = <<>> /\ revDids = <<>> /\ newDids = <<>>
    /\ lrnCount = 0 /\ revCount = 0 /\ newCount = 0
    /\ haveQueues = FALSE
    /\ now = NowStart
    /\ ticks = 0
    /\ today = NowStart \div DaySecs
    /\ dayCutoff = ((NowStart \div DaySecs) + 1) * DaySecs
    /\ deckStats = ZeroStats(NowStart \div DaySecs)
    /\ lastUnburied = NowStart \div DaySecs
    /\ nextPos = Cardinality(DOMAIN cards) + 1
    /\ revlog = 0
    /\ leechTags = {}
    /\ admin = 0
    /\ backups = NoBackups
    /\ op = NoOp

Init == InitFrom(Collections)

(***************************************************************************)
(* Operations.                                                             *)
(***************************************************************************)
\* the draws of random.uniform(1, 1.25): its two ends
LrnFuzz == {<<1, 1>>, <<5, 4>>}
\* the draws of the interval fuzz an answer can use: none after "again",
\* none for a card in relearning, none with the fuzz switched off
FuzzDraws(card, ease) ==
    IF /\ conf.spreadRev
       /\ ease # BUTTON_ONE
       /\ (card.queue = QUEUE_REV \/ card.type # CARD_DUE)
    THEN -FuzzSpan..FuzzSpan ELSE {0}
\* the draws of the step delay an answer can use: none for a card of the
\* review queue, none for a card that graduates at once
StepDraws(card, ease) ==
    IF card.queue # QUEUE_REV /\ ease # BUTTON_THREE THEN LrnFuzz ELSE {<<1, 1>>}
\* the failing inserts of an answer: none, the first, or both; only
\* _logRev is in the source
InsertFails(card) == IF card.queue = QUEUE_REV THEN 0..2 ELSE {0}
\* eases outside the buttons
BadEases == {0, 5}
\* the steps of the clock: past every learning step of the options, and a day
TickSteps == {900, DaySecs}

NonEmptySubsets(S) == SUBSET S \ {{}}

\* the lists without repetition over S
ListsOver(S) ==
    {l \in UNION {[1..n -> S] : n \in 1..Cardinality(S)} :
        \A i, j \in DOMAIN l : i # j => l[i] # l[j]}

\* what _updateCutoff and the three resets of reset() leave behind
resetAll(db, stats, unburied) ==
    Let(now \div DaySecs, LAMBDA td :
    Let((td + 1) * DaySecs, LAMBDA cutoff :
    Let(rollStats(stats, td), LAMBDA stats1 :
    Let(IF unburied < td THEN unburyCards(db) ELSE db, LAMBDA db1 :
        [q |-> resetNew(resetRev(resetLrn(Sched, db1, td, cutoff), db1, td, stats1),
                        db1, stats1),
         db |-> db1, td |-> td, cutoff |-> cutoff, stats |-> stats1,
         unburied |-> IF unburied < td THEN td ELSE unburied]))))

NoReset ==
    [q |-> Sched, db |-> cards, td |-> today, cutoff |-> dayCutoff,
     stats |-> deckStats, unburied |-> lastUnburied]

SetSched(q) ==
    /\ lrnQueue' = q.lrnQueue
    /\ lrnDayQueue' = q.lrnDayQueue
    /\ revQueue' = q.revQueue
    /\ newQueue' = q.newQueue
    /\ lrnDids' = q.lrnDids
    /\ revDids' = q.revDids
    /\ newDids' = q.newDids
    /\ lrnCount' = q.lrnCount
    /\ revCount' = q.revCount
    /\ newCount' = q.newCount

SetEnv(e) ==
    /\ SetSched(e.q)
    /\ cards' = e.db
    /\ today' = e.td
    /\ dayCutoff' = e.cutoff
    /\ deckStats' = e.stats
    /\ lastUnburied' = e.unburied

\* sched.reset()
Reset ==
    /\ SetEnv(resetAll(cards, deckStats, lastUnburied))
    /\ haveQueues' = TRUE
    /\ cur' = NoCard
    /\ op' = [NoOp EXCEPT !.name = "reset"]
    /\ UNCHANGED <<backups, conf, now, ticks, nextPos, revlog, leechTags, admin>>

\* sched.getCard(): the day check, the reset when no queues are built, _getCard
GetCard ==
    /\ cur = NoCard
    /\ Let(IF now > dayCutoff \/ ~haveQueues
           THEN resetAll(cards, deckStats, lastUnburied) ELSE NoReset, LAMBDA e :
       Let(getCard(e.q, e.db, e.td, e.cutoff, e.stats), LAMBDA q :
           /\ SetEnv([e EXCEPT !.q = q])
           /\ cur' = IF q.got = 0 THEN NoCard ELSE e.db[q.got]
           /\ op' = [NoOp EXCEPT !.name = "getCard", !.cid = q.got,
                                 !.resets = q.resets]))
    /\ haveQueues' = TRUE
    /\ UNCHANGED <<backups, conf, now, ticks, nextPos, revlog, leechTags, admin>>

\* the queues after _burySiblings discarded the siblings of the card
RECURSIVE Discard(_, _)
Discard(q, S) ==
    IF q = <<>> THEN <<>>
    ELSE IF Head(q) \in S THEN Discard(Tail(q), S)
    ELSE <<Head(q)>> \o Discard(Tail(q), S)

\* sched.answerCard(cur, ease); r and f are the random draws
\* an operation counted against MaxAdmin
Taking ==
    /\ admin < MaxAdmin
    /\ admin' = admin + 1

\* answerCard with an ease that fails "assert 1 <= ease <= 4": nothing is
\* done; the caller keeps the card
AnswerRefused(ease) ==
    /\ cur # NoCard
    /\ ~(1 <= ease /\ ease <= 4)
    /\ op' = [NoOp EXCEPT !.name = "answerFailed", !.cid = cur.id,
                          !.ease = ease, !.before = cur]
    /\ Taking
    /\ UNCHANGED <<backups, conf, cards, cur, lrnQueue, lrnDayQueue, revQueue, newQueue,
                   lrnDids, revDids, newDids, lrnCount, revCount, newCount,
                   haveQueues, now, ticks, today, dayCutoff, deckStats,
                   lastUnburied, nextPos, revlog, leechTags>>

\* _logRev without the second try
logRevOnce(ins) ==
    [rows |-> IF ins = 0 THEN 1 ELSE 0, raised |-> ins > 0]

\* _logRev when the first "ins" inserts fail: the rows written, and whether
\* the failure is raised
logRev(ins) ==
    [rows |-> IF ins < 2 THEN 1 ELSE 0, raised |-> ins >= 2]

\* ins: the inserts into the revlog that fail (_logRev tries twice); an
\* answer that fails for them is counted against MaxAdmin
AnswerCard(ease, r, f, ins) ==
    /\ cur # NoCard
    /\ revlog < MaxAnswers
    /\ logRev(ins).raised => admin < MaxAdmin
    /\ admin' = IF logRev(ins).raised THEN admin + 1 ELSE admin
    /\ Let(siblings(cards, cur), LAMBDA sib :
       Let(burySiblings(cards, cur), LAMBDA db1 :
       Let(cur.queue = QUEUE_NEW_CRAM, LAMBDA wasNewQ :
       Let(IF wasNewQ THEN fromNewQueue([cur EXCEPT !.reps = cur.reps + 1])
           ELSE [cur EXCEPT !.reps = cur.reps + 1], LAMBDA c2 :
       Let(IF wasNewQ THEN countAnswer(deckStats, c2, "newToday")
           ELSE deckStats, LAMBDA stats1 :
       Let(c2.queue \in {QUEUE_LRN, QUEUE_DAY_LRN}, LAMBDA isLrn :
       Let(c2.queue = QUEUE_REV, LAMBDA isRev :
       Let(IF isLrn THEN answerLrnCard(c2, ease, r, f)
           ELSE answerRevCard(c2, ease, r), LAMBDA out :
       Let(DeckAndParents(out.card.did), LAMBDA dids :
       Let(IF isRev THEN countAnswer(stats1, out.card, "revToday")
           ELSE IF ~wasNewQ THEN countAnswer(stats1, out.card, "lrnToday")
           ELSE stats1, LAMBDA stats2 :
           /\ revQueue' = Discard(revQueue, sib)
           /\ newQueue' = Discard(newQueue, sib)
           /\ IF isRev /\ logRev(ins).raised
              THEN \* the second insert raises out of _logRev: the scheduler
                   \* and the note keep what _answerRevCard did, the card is
                   \* not flushed and nothing is counted
                   /\ cards' = db1
                   /\ deckStats' = stats1
                   /\ lrnQueue' = IF out.push # <<>> THEN heappush(lrnQueue, out.push)
                                  ELSE lrnQueue
                   /\ lrnCount' = lrnCount + out.lrnAdd
                   /\ leechTags' = IF out.leech THEN leechTags \cup {NoteOf(cur.id)}
                                   ELSE leechTags
                   /\ op' = [NoOp EXCEPT !.name = "answerFailed", !.cid = cur.id,
                                         !.ease = ease, !.before = cur,
                                         !.leech = out.leech, !.fails = ins]
                   /\ revlog' = revlog + logRev(ins).rows
                   /\ UNCHANGED nextPos
              ELSE IF isLrn \/ isRev
              THEN /\ cards' = [db1 EXCEPT ![cur.id] = out.card]
                   /\ deckStats' = updateStats(stats2, dids, "timeToday", TimeTaken)
                   /\ lrnQueue' = IF out.push # <<>> THEN heappush(lrnQueue, out.push)
                                  ELSE lrnQueue
                   /\ lrnCount' = lrnCount + out.lrnAdd
                   /\ nextPos' = IF out.pos THEN nextPos + 1 ELSE nextPos
                   /\ leechTags' = IF out.leech THEN leechTags \cup {NoteOf(cur.id)}
                                   ELSE leechTags
                   /\ revlog' = revlog + 1
                   /\ op' = [NoOp EXCEPT !.name = "answerCard", !.cid = cur.id,
                                         !.ease = ease, !.before = cur,
                                         !.leech = out.leech,
                                         !.fails = ins]
              ELSE \* raise Exception("Invalid queue"): the card is not flushed
                   /\ cards' = db1
                   /\ op' = [NoOp EXCEPT !.name = "answerFailed", !.cid = cur.id,
                                         !.ease = ease, !.before = cur]
                   /\ UNCHANGED <<deckStats, lrnQueue, lrnCount, nextPos, leechTags,
                                  revlog>>))))))))))
    /\ cur' = NoCard
    /\ UNCHANGED <<backups, conf, lrnDayQueue, lrnDids, revDids, newDids, revCount, newCount,
                   haveQueues, now, ticks, today, dayCutoff, lastUnburied>>

\* an operation on the card rows alone
OnlyCards ==
    UNCHANGED <<backups, conf, cur, lrnQueue, lrnDayQueue, revQueue, newQueue, lrnDids,
                revDids, newDids, lrnCount, revCount, newCount, haveQueues, now,
                ticks, today, dayCutoff, deckStats, nextPos, revlog, leechTags>>

SuspendCards(ids) ==
    /\ cards' = suspendCards(cards, ids)
    /\ op' = [NoOp EXCEPT !.name = "suspendCards", !.ids = ids]
    /\ OnlyCards /\ Taking /\ UNCHANGED lastUnburied

UnsuspendCards(ids) ==
    /\ cards' = unsuspendCards(cards, ids)
    /\ op' = [NoOp EXCEPT !.name = "unsuspendCards", !.ids = ids]
    /\ OnlyCards /\ Taking /\ UNCHANGED lastUnburied

BuryCards(ids) ==
    /\ cards' = buryCards(cards, ids)
    /\ op' = [NoOp EXCEPT !.name = "buryCards", !.ids = ids]
    /\ OnlyCards /\ Taking /\ UNCHANGED lastUnburied

UnburyCards ==
    /\ cards' = unburyCards(cards)
    /\ lastUnburied' = today
    /\ op' = [NoOp EXCEPT !.name = "unburyCards"]
    /\ OnlyCards /\ Taking

\* _fillDyn of the filtered deck; ids is what findCards returned
FillDyn(ids) ==
    /\ cards' = moveToDyn(cards, DynDid, ids)
    /\ op' = [NoOp EXCEPT !.name = "fillDyn", !.ids = {ids[i] : i \in DOMAIN ids}]
    /\ OnlyCards /\ Taking /\ UNCHANGED lastUnburied

EmptyDyn ==
    /\ cards' = emptyDyn(cards, DynDid)
    /\ op' = [NoOp EXCEPT !.name = "emptyDyn",
                          !.ids = {c \in DOMAIN cards : cards[c].did = DynDid}]
    /\ OnlyCards /\ UNCHANGED <<lastUnburied, admin>>

\* time passes
Tick(dt) ==
    /\ ticks < MaxTicks
    /\ now' = now + dt
    /\ ticks' = ticks + 1
    /\ op' = [NoOp EXCEPT !.name = "tick"]
    /\ UNCHANGED <<backups, conf, cards, cur, lrnQueue, lrnDayQueue, revQueue, newQueue,
                   lrnDids, revDids, newDids, lrnCount, revCount, newCount,
                   haveQueues, today, dayCutoff, deckStats, lastUnburied, nextPos,
                   revlog, leechTags, admin>>

Next ==
    \/ Reset
    \/ GetCard
    \/ /\ cur # NoCard
       /\ \E ease \in BUTTON_ONE..BUTTON_FOUR :
             \E r \in FuzzDraws(cur, ease), f \in StepDraws(cur, ease),
                ins \in InsertFails(cur) :
                 AnswerCard(ease, r, f, ins)
    \/ \E ease \in BadEases : AnswerRefused(ease)
    \/ \E ids \in NonEmptySubsets(DOMAIN cards) : SuspendCards(ids)
    \/ \E ids \in NonEmptySubsets(DOMAIN cards) : UnsuspendCards(ids)
    \/ \E ids \in NonEmptySubsets(DOMAIN cards) : BuryCards(ids)
    \/ UnburyCards
    \/ \E ids \in ListsOver(dynCandidates(cards)) : FillDyn(ids)
    \/ EmptyDyn

Spec == Init /\ [][Next]_vars

\* the same over the collections of one card, and of two cards of one note
SpecOneCard == InitFrom(OneCard) /\ [][Next]_vars

SpecTwoCards == InitFrom(TwoCards) /\ [][Next]_vars

\* the same with the clock running
NextTimed ==
    \/ Next
    \/ \E dt \in TickSteps : Tick(dt)

SpecTimed == Init /\ [][NextTimed]_vars

\* the study loop alone, with the clock running: reset, pick, answer
NextStudy ==
    \/ Reset
    \/ GetCard
    \/ /\ cur # NoCard
       /\ \E ease \in BUTTON_ONE..BUTTON_FOUR :
             \E r \in FuzzDraws(cur, ease), f \in StepDraws(cur, ease),
                ins \in InsertFails(cur) :
                 AnswerCard(ease, r, f, ins)
    \/ \E dt \in TickSteps : Tick(dt)

SpecStudy == Init /\ [][NextStudy]_vars

\* the study loop over the collections whose cards wait together
SpecUnburied == InitFrom(Unburied) /\ [][NextStudy]_vars

\* the study loop over the collections of relearning
SpecCram == InitFrom(Cram) /\ [][NextStudy]_vars

(***************************************************************************)
(* The deck list and the deck limits, over the tree of four decks: the     *)
(* collection is opened with the decks' counters of the day at any value   *)
(* up to MaxDone, the option limitAllCards on or off, and the calls are    *)
(* made on it.  The calls read the collection and change nothing; op holds *)
(* the call and what it returned.                                          *)
(***************************************************************************)
\* one new card and one due review per day at most in a regular deck when
\* nothing is done yet, two cards in all
ConfTree ==
    [BaseConf EXCEPT !.newPerDay = 1, !.revPerDay = 2, !.perDayAll = 2]

\* the card row moved to the deck did
InDeck(row, did) == [row EXCEPT !.did = did]

\* a card with two learning steps left, due now
LrnCard(c) ==
    [NewCard(c) EXCEPT !.type = CARD_LRN, !.queue = QUEUE_LRN,
                       !.due = R(NowStart), !.left = 2 * LeftBase + 2]

\* the cards of the four decks: new cards, due reviews, a review not yet due,
\* cards in learning
TreeCards ==
    <<NewCard(1), RevCard(2, 2, 2500, 0, 0),
      InDeck(NewCard(3), SubDid), InDeck(NewCard(4), SubDid),
      InDeck(RevCard(5, 2, 2500, 1, 0), SubDid),
      InDeck(NewCard(6), LeafDid), InDeck(RevCard(7, 2, 2500, 0, 0), LeafDid),
      InDeck(RevCard(8, 5, 2500, 2, 0), LeafDid),
      InDeck(RevCard(9, 5, 2500, -3, 0), LeafDid),
      InDeck(LrnCard(10), LeafDid),
      Filtered(RevCard(11, 5, 1400, 2, 1)), InDeck(LrnCard(12), DynDid)>>

\* the counters of the day of the four decks
TreeStats(td) ==
    {[d \in TreeDids |-> [newToday |-> <<td, f[d][1]>>, revToday |-> <<td, f[d][2]>>,
                          lrnToday |-> <<td, 0>>, timeToday |-> <<td, 0>>]] :
        f \in {g \in [TreeDids -> (0..MaxDone) \X (0..MaxDone)] :
                  g[DynDid][1] = g[DynDid][2]}}

InitTree ==
    /\ \E b \in BOOLEAN : conf = [ConfTree EXCEPT !.limitAllCards = b]
    /\ cards = TreeCards
    /\ cur = NoCard
    /\ lrnQueue = <<>> /\ lrnDayQueue = <<>> /\ revQueue = <<>> /\ newQueue = <<>>
    /\ lrnDids = <<>> /\ revDids = <<>> /\ newDids = <<>>
    /\ lrnCount = 0 /\ revCount = 0 /\ newCount = 0
    /\ haveQueues = FALSE
    /\ now = NowStart
    /\ ticks = 0
    /\ today = NowStart \div DaySecs
    /\ dayCutoff = ((NowStart \div DaySecs) + 1) * DaySecs
    /\ deckStats \in TreeStats(NowStart \div DaySecs)
    /\ lastUnburied = NowStart \div DaySecs
    /\ nextPos = Len(TreeCards) + 1
    /\ revlog = 0
    /\ leechTags = {}
    /\ admin = 0
    /\ backups = NoBackups
    /\ op = NoOp

\* a call that reads the collection, made on the collection just opened (a
\* call changes nothing, so a later call returns what it returns here): op
\* holds its name, the deck it was given and what it returned
Returned(name, did, ret) ==
    /\ op = NoOp
    /\ op' = [name |-> name, did |-> did, ret |-> ret]
    /\ UNCHANGED <<backups, conf, cards, cur, lrnQueue, lrnDayQueue, revQueue, newQueue,
                   lrnDids, revDids, newDids, lrnCount, revCount, newCount,
                   haveQueues, now, ticks, today, dayCutoff, deckStats,
                   lastUnburied, nextPos, revlog, leechTags, admin>>

DeckNewLimitSingle(did) ==
    Returned("deckNewLimitSingle", did, deckNewLimitSingle(deckStats, did))

DeckRevLimitSingle(did) ==
    Returned("deckRevLimitSingle", did, deckRevLimitSingle(deckStats, did))

DeckDueList ==
    Returned("deckDueList", 0, deckDueList(cards, now, today, deckStats))

DeckDueTree ==
    Returned("deckDueTree", 0, deckDueTree(cards, now, today, deckStats))

NextTree ==
    \/ \E did \in TreeDids : DeckNewLimitSingle(did)
    \/ \E did \in TreeDids : DeckRevLimitSingle(did)
    \/ DeckDueList
    \/ DeckDueTree

SpecTree == InitTree /\ [][NextTree]_vars

(***************************************************************************)
(* Backups: AnkiQt.backup() runs on the main thread in three steps         *)
(* (createBackups, cleanRecentBackup, cleanLongTermBackup); the threads it *)
(* started run at any time after their start.  Between two backups the     *)
(* collection is used: cards are suspended.                                *)
(***************************************************************************)
\* the local times backup() reads: two seconds of one day and the day after;
\* the local time of a call may lie before the local time of the call before
\* (the clock is set back, daylight saving time ends)
LocalTimes ==
    {[year |-> 2026, month |-> 3, day |-> 1, sec |-> 1],
     [year |-> 2026, month |-> 3, day |-> 1, sec |-> 2],
     [year |-> 2026, month |-> 3, day |-> 2, sec |-> 1]}

\* the folder at the start: the archives of a day and of a month long ago
OldFiles ==
    [f \in {<<"daily", 2025, 12, 31>>, <<"monthly", 2025, 1>>} |-> <<<<>>>>]

\* the state of the scheduler and of the collection
schedVars ==
    <<conf, cards, cur, lrnQueue, lrnDayQueue, revQueue, newQueue, lrnDids,
      revDids, newDids, lrnCount, revCount, newCount, haveQueues, now, ticks,
      today, dayCutoff, deckStats, lastUnburied, nextPos, revlog, leechTags,
      admin>>

\* a collection of one new card, and the profile's numBackups and
\* longTermBackup
InitBackup ==
    /\ conf = ConfNoFuzz /\ cards = [c \in {1} |-> NewCard(1)]
    /\ cur = NoCard
    /\ lrnQueue = <<>> /\ lrnDayQueue = <<>> /\ revQueue = <<>> /\ newQueue = <<>>
    /\ lrnDids = <<>> /\ revDids = <<>> /\ newDids = <<>>
    /\ lrnCount = 0 /\ revCount = 0 /\ newCount = 0
    /\ haveQueues = FALSE
    /\ now = NowStart
    /\ ticks = 0
    /\ today = NowStart \div DaySecs
    /\ dayCutoff = ((NowStart \div DaySecs) + 1) * DaySecs
    /\ deckStats = ZeroStats(NowStart \div DaySecs)
    /\ lastUnburied = NowStart \div DaySecs
    /\ nextPos = 2
    /\ revlog = 0
    /\ leechTags = {}
    /\ admin = 0
    /\ \E n \in 0..2, long \in BOOLEAN :
          backups = [NoBackups EXCEPT !.files = OldFiles, !.numBackups = n,
                                      !.longTermBackup = long]
    /\ op = NoOp

\* backup() up to the end of createBackups, at the local time t
Backup(t) ==
    /\ backups.pc = "idle"
    /\ backups.calls < MaxBackups
    /\ backups' =
          [createBackups([backups EXCEPT !.year = t.year, !.month = t.month,
                                         !.day = t.day, !.unlinked = {},
                                         !.calls = @ + 1,
                                         !.last = <<t.year, t.month, t.day, t.sec>>,
                                         !.setBack = @ \/ StampLess(
                                             <<t.year, t.month, t.day, t.sec>>,
                                             backups.last)],
                           t, cards)
             EXCEPT !.pc = "created"]
    /\ op' = [NoOp EXCEPT !.name = "createBackups"]
    /\ UNCHANGED schedVars

CleanRecentBackup ==
    /\ backups.pc = "created"
    /\ backups' = [cleanRecentBackup(backups) EXCEPT !.pc = "cleanedRecent"]
    /\ op' = [NoOp EXCEPT !.name = "cleanRecentBackup"]
    /\ UNCHANGED schedVars

CleanLongTermBackup ==
    /\ backups.pc = "cleanedRecent"
    /\ backups' = [cleanLongTermBackup(backups) EXCEPT !.pc = "idle"]
    /\ op' = [NoOp EXCEPT !.name = "cleanLongTermBackup"]
    /\ UNCHANGED schedVars

\* a backup thread runs to its end
BackupThreadRun(th, early) ==
    /\ th \in backups.threads
    /\ backups' = run(backups, th, early)
    /\ op' = [NoOp EXCEPT !.name = "BackupThread.run"]
    /\ UNCHANGED schedVars

NextBackup ==
    \/ \E t \in LocalTimes : Backup(t)
    \/ CleanRecentBackup
    \/ CleanLongTermBackup
    \/ \E th \in backups.threads, early \in BOOLEAN : BackupThreadRun(th, early)
    \/ /\ backups.pc = "idle"
       /\ \E ids \in NonEmptySubsets(DOMAIN cards) : SuspendCards(ids)

SpecBackup == InitBackup /\ [][NextBackup]_vars

(***************************************************************************)
(* Properties.                                                             *)
(***************************************************************************)
Inactive == {QUEUE_SUSPENDED, QUEUE_USER_BURIED, QUEUE_SCHED_BURIED}

\* C1: every card the picker returns has a stored queue that is neither
\* suspended nor buried, also when its id was already in an in-memory queue
\* when it was suspended or buried
C1_PickerSkipsInactive ==
    op.name = "getCard" /\ op.cid # 0 => cards[op.cid].queue \notin Inactive

\* the card the last answerCard was given, as stored
Answered == cards[op.cid]

InLearning(card) == card.queue \in {QUEUE_LRN, QUEUE_DAY_LRN}

\* C2: after an answerCard that leaves the card in the learning or day
\* learning queue, 0 <= left mod 1000 <= len(delays) and
\* left div 1000 <= len(delays), delays being the steps of the card's options
C2_LeftWithinSteps ==
    op.name = "answerCard" /\ InLearning(Answered) =>
        /\ 0 <= Answered.left % LeftBase
        /\ Answered.left % LeftBase <= Len(lrnConf(Answered).delays)
        /\ Answered.left \div LeftBase <= Len(lrnConf(Answered).delays)

\* the last call was a successful review, with rescheduling in effect
ReviewSuccess ==
    /\ op.name = "answerCard"
    /\ op.before.queue = QUEUE_REV
    /\ op.ease >= BUTTON_TWO
    /\ resched(op.before)

\* C3 as stated: after a successful review with rescheduling,
\* old.ivl + 1 <= new.ivl <= maxIvl
C3_IvlGrowsWithinCap ==
    ReviewSuccess =>
        /\ RLe(RAdd(op.before.ivl, R(1)), Answered.ivl)
        /\ RLe(Answered.ivl, R(revMaxIvl(op.before)))

\* C3 amended: after a successful review with rescheduling, new.ivl <= maxIvl
\* and new.ivl >= min(old.ivl + 1, maxIvl)
C3_IvlGrowsUpToCap ==
    ReviewSuccess =>
        /\ RLe(RMin(RAdd(op.before.ivl, R(1)), R(revMaxIvl(op.before))), Answered.ivl)
        /\ RLe(Answered.ivl, R(revMaxIvl(op.before)))

\* a successful review took the interval beyond old.ivl + 1
C3_Witness ==
    ReviewSuccess /\ RLt(RAdd(op.before.ivl, R(1)), Answered.ivl)

\* C4: after an answer that reschedules the card and sets its interval (review
\* success, lapse, Again while relearning, graduation, filtered-deck boost),
\* ivl <= maxIvl of the card's review options
C4_IvlAtMostMaxIvl ==
    /\ op.name = "answerCard"
    /\ resched(op.before)
    /\ Answered.ivl # op.before.ivl
    => RLe(Answered.ivl, R(revMaxIvl(Answered)))

\* C5: when answerCard changes the factor of a review card (lapse or
\* success, with rescheduling), the resulting factor is at least 1300
C5_FactorFloor ==
    /\ op.name = "answerCard"
    /\ op.before.queue = QUEUE_REV
    /\ resched(op.before)
    => Answered.factor >= 1300

\* a lapse of a card whose factor less 200 is below the floor
C5_Witness ==
    /\ op.name = "answerCard"
    /\ op.before.queue = QUEUE_REV
    /\ resched(op.before)
    /\ op.ease = BUTTON_ONE
    /\ op.before.factor - 200 < 1300
    /\ Answered.factor = 1300

\* C6: emptyDyn(did) leaves every card of the filtered deck with odid = 0,
\* odue = 0, did = its former odid and due = its former odue; a card of type
\* learning becomes a new card in the new queue, any other gets queue = type
C6_EmptyDynRestores ==
    [][op'.name = "emptyDyn" =>
         \A c \in DOMAIN cards :
            cards[c].did = DynDid =>
               /\ cards'[c].odid = 0
               /\ RIsZero(cards'[c].odue)
               /\ cards'[c].did = cards[c].odid
               /\ cards'[c].due = cards[c].odue
               /\ IF cards[c].type = CARD_LRN
                  THEN cards'[c].type = CARD_NEW /\ cards'[c].queue = QUEUE_NEW_CRAM
                  ELSE cards'[c].type = cards[c].type
                       /\ cards'[c].queue = cards[c].type]_vars

\* emptyDyn took a card that was in learning in the filtered deck back home
C6_Witness ==
    /\ op.name = "emptyDyn"
    /\ \E c \in op.ids : /\ cards[c].type = CARD_NEW
                         /\ cards[c].queue = QUEUE_NEW_CRAM
                         /\ cards[c].reps > 0
                         /\ cards[c].did = HomeDid
                         /\ cards[c].odid = 0

\* C7: a card of type other than learning that fillDyn moved into the filtered
\* deck is, after an emptyDyn of that deck with no answer in between, in its
\* original deck with its original due
C7_FillEmptyRoundTrip ==
    [][op'.name = "fillDyn" =>
         \A c \in op'.ids :
            cards[c].type # CARD_LRN =>
               /\ emptyDyn(cards', DynDid)[c].did = cards[c].did
               /\ emptyDyn(cards', DynDid)[c].due = cards[c].due]_vars

\* fillDyn moved a review card and a new card into the filtered deck
C7_Witness ==
    /\ op.name = "fillDyn"
    /\ \E c \in op.ids : cards[c].type = CARD_DUE /\ cards[c].did = DynDid
    /\ \E c \in op.ids : cards[c].type = CARD_NEW /\ cards[c].did = DynDid

\* C8: buryCards([c]) followed by unburyCards() leaves c.queue = c.type,
\* whatever schedulable state c was in
C8_BuryUnburyRoundTrip ==
    [][op'.name = "buryCards" =>
         \A c \in op'.ids :
            unburyCards(cards')[c].queue = unburyCards(cards')[c].type]_vars

\* buryCards took a card out of learning
C8_Witness ==
    /\ op.name = "buryCards"
    /\ \E c \in op.ids : /\ cards[c].queue = QUEUE_USER_BURIED
                         /\ cards[c].type = CARD_NEW
                         /\ cards[c].reps > 0

\* C9: a card with odid # 0 is in a filtered deck, which is not the deck odid
\* names; a card back in its home deck has odid = 0
C9_OdidMeansFiltered ==
    \A c \in DOMAIN cards :
        cards[c].odid # 0 => IsDyn(cards[c].did) /\ cards[c].did # cards[c].odid

\* an answer moved a card of the filtered deck back to its home deck
C9_Witness ==
    /\ op.name = "answerCard"
    /\ op.before.odid # 0
    /\ Answered.odid = 0
    /\ Answered.did = op.before.odid

\* C10 as stated: a card has odue # 0 if and only if it lives in a filtered
\* deck (odid # 0), in every state
C10_OdueIffOdid ==
    \A c \in DOMAIN cards : ~RIsZero(cards[c].odue) <=> cards[c].odid # 0

\* C10 amended: a card with odue # 0 lives in a filtered deck (odid # 0) or is
\* a review card in relearning (type review, learning or day learning queue)
C10_OdueFilteredOrRelearning ==
    \A c \in DOMAIN cards :
        ~RIsZero(cards[c].odue) =>
            \/ cards[c].odid # 0
            \/ cards[c].type = CARD_DUE /\ InLearning(cards[c])

\* the lapse of a review card of a regular deck left it in relearning with
\* its review due date in odue
C10_Witness ==
    /\ op.name = "answerCard"
    /\ op.ease = BUTTON_ONE
    /\ op.before.queue = QUEUE_REV
    /\ op.before.odid = 0
    /\ InLearning(Answered)
    /\ Answered.odid = 0
    /\ ~RIsZero(Answered.odue)

\* the step is a completed answerCard call
AnswerStep == op'.name = "answerCard" /\ revlog' = revlog + 1

\* no counter of new or review answers goes down in the step
CountersKept ==
    \A d \in Dids :
        /\ deckStats'[d].newToday[2] >= deckStats[d].newToday[2]
        /\ deckStats'[d].revToday[2] >= deckStats[d].revToday[2]

\* C11 as stated: within one day the new and review counters never go down,
\* an answer of a card from the new queue raises newToday and an answer of a
\* card from the review queue raises revToday, each for the deck the card is
\* in when it is answered
C11_CountersOfCardsDeck ==
    [][today' = today =>
        /\ CountersKept
        /\ AnswerStep /\ cur.queue = QUEUE_NEW_CRAM =>
              deckStats'[cur.did].newToday[2] = deckStats[cur.did].newToday[2] + 1
        /\ AnswerStep /\ cur.queue = QUEUE_REV =>
              deckStats'[cur.did].revToday[2] = deckStats[cur.did].revToday[2] + 1]_vars

\* C11 amended: within one day the new and review counters never go down, an
\* answer of a card from the new queue raises newToday for the deck the card
\* is in when it is answered, and an answer of a card from the review queue
\* raises revToday for the deck the card is in after the answer
C11_CountersOfDeckCounted ==
    [][today' = today =>
        /\ CountersKept
        /\ AnswerStep /\ cur.queue = QUEUE_NEW_CRAM =>
              deckStats'[cur.did].newToday[2] = deckStats[cur.did].newToday[2] + 1
        /\ AnswerStep /\ cur.queue = QUEUE_REV =>
              deckStats'[cards'[cur.id].did].revToday[2]
                  = deckStats[cards'[cur.id].did].revToday[2] + 1]_vars

\* a review in the filtered deck was answered and the card went home, after
\* an earlier answer had already raised a counter
C11_Witness ==
    /\ op.name = "answerCard"
    /\ op.before.queue = QUEUE_REV /\ op.before.did = DynDid
    /\ Answered.did = HomeDid
    /\ deckStats[HomeDid].revToday[2] = 1
    /\ deckStats[DynDid].revToday[2] = 0

StatKeys == {"newToday", "revToday", "lrnToday", "timeToday"}

\* the step runs the day check: reset(), or getCard() past the day cutoff or
\* before any queue was built
DayCheckStep ==
    \/ op'.name = "reset"
    \/ op'.name = "getCard" /\ (now > dayCutoff \/ ~haveQueues)

\* C12: at every day check each counter pair of each deck whose day index
\* differs from the new today becomes <<today, 0>> and every other pair is
\* left as it is; the pairs an answer adds to carry the scheduler's today
C12_DayCheckRollsCounters ==
    [][/\ DayCheckStep =>
            /\ today' = now \div DaySecs
            /\ \A d \in Dids, k \in StatKeys :
                  deckStats'[d][k] = IF deckStats[d][k][1] # today'
                                     THEN <<today', 0>> ELSE deckStats[d][k]
       /\ AnswerStep =>
            \A d \in Dids, k \in StatKeys :
                deckStats'[d][k] # deckStats[d][k] =>
                    /\ deckStats[d][k][1] = today
                    /\ deckStats'[d][k][1] = today]_vars

\* a day check on the day after an answer has put the counters back to 0
C12_Witness ==
    /\ op.name \in {"reset", "getCard"}
    /\ revlog > 0
    /\ today = (NowStart \div DaySecs) + 1
    /\ \A d \in Dids, k \in StatKeys : deckStats[d][k] = <<today, 0>>

\* the learning heap after answerCard(cur, ease) on the held card, a card of
\* the new queue or in learning, the step delay having drawn f
HeapAfterStep(ease, f) ==
    Let([cur EXCEPT !.reps = cur.reps + 1], LAMBDA c1 :
    Let(IF cur.queue = QUEUE_NEW_CRAM THEN fromNewQueue(c1) ELSE c1, LAMBDA c2 :
    Let(answerLrnCard(c2, ease, 0, f), LAMBDA out :
        IF out.push = <<>> THEN lrnQueue ELSE heappush(lrnQueue, out.push))))

\* the learning card a request at clock t is given from the heap, or 0
LearningShownAt(heap, t) ==
    IF heap # <<>> /\ heap[1][1] < t THEN heap[1][2] ELSE 0

\* C13: two runs from the same state with the same requests and grades show
\* the same cards: whatever the random draws of the two runs, after the same
\* grade of the held card a request at any later time of the day is given
\* the same learning card in both
C13_SameCardsInBothRuns ==
    (cur # NoCard /\ cur.queue \in {QUEUE_NEW_CRAM, QUEUE_LRN, QUEUE_DAY_LRN}) =>
        \A ease \in {BUTTON_ONE, BUTTON_TWO}, f1, f2 \in LrnFuzz :
            \A t \in (now + 1)..(now + LaterSecs) :
                LearningShownAt(HeapAfterStep(ease, f1), t)
                    = LearningShownAt(HeapAfterStep(ease, f2), t)

\* the last call was answerCard(c, 2) on a card of the learning queues on
\* its last step
LastStepGood ==
    /\ op.name = "answerCard" /\ op.ease = BUTTON_TWO
    /\ InLearning(op.before)
    /\ op.before.left % LeftBase = 1

\* the card is a review card with the graduating interval "ideal" up to fuzz,
\* due that many days from today
GraduatedWith(card, ideal) ==
    /\ card.type = CARD_DUE /\ card.queue = QUEUE_REV
    /\ RIsInt(card.ivl)
    /\ IF conf.spreadRev
       THEN /\ fuzzIvlRange(ideal)[1] <= RInt(card.ivl)
            /\ RInt(card.ivl) <= fuzzIvlRange(ideal)[2]
       ELSE card.ivl = R(ideal)
    /\ card.due = RAdd(R(today), card.ivl)

\* C14 as stated: answerCard(c, 2) on any card of the learning queues whose
\* remaining step count is 1 leaves it a review card with ivl = ints[0] up to
\* fuzz and due = today + ivl
C14_LastStepGraduates ==
    LastStepGood => GraduatedWith(Answered, conf.ints[1])

\* C14 amended: the same for a card of type LEARNING (not a review card in
\* relearning) whose answer reschedules it (not in a filtered deck with
\* rescheduling off)
C14_LastStepGraduatesNewCard ==
    (LastStepGood /\ op.before.type = CARD_LRN /\ resched(op.before)) =>
        GraduatedWith(Answered, conf.ints[1])

\* a learning card graduated on its last step with a fuzzed interval
C14_Witness ==
    /\ LastStepGood /\ op.before.type = CARD_LRN /\ resched(op.before)
    /\ Answered.queue = QUEUE_REV
    /\ Answered.ivl # R(conf.ints[1])

\* a card of the review queue is answered Again and its lapse options have no
\* relearning steps
LapseNoSteps ==
    /\ AnswerStep /\ op'.ease = BUTTON_ONE
    /\ cur.queue = QUEUE_REV
    /\ lapseConf(cur).delays = <<>>

\* the step neither starts relearning nor touches the learning heap
NoRelearning ==
    /\ cards'[cur.id].left = cur.left
    /\ lrnQueue' = lrnQueue
    /\ lrnCount' = lrnCount

\* the card stays in the review queue and is due after its new interval
KeptInReview ==
    /\ cards'[cur.id].queue = QUEUE_REV
    /\ cards'[cur.id].due = RAdd(R(today), cards'[cur.id].ivl)

\* C15 as stated: without relearning steps, Again on a card of the review
\* queue leaves it in the review queue with due = today + ivl, leaves left
\* unchanged, pushes nothing on the learning heap and leaves lrnCount alone
C15_LapseWithoutSteps ==
    [][LapseNoSteps => KeptInReview /\ NoRelearning]_vars

\* C15 amended: without relearning steps, Again on a card of the review queue
\* leaves left, the learning heap and lrnCount unchanged; when the answer
\* reschedules and the card is not suspended as a leech, the card stays in
\* the review queue with due = today + ivl, ivl being the lapse interval
C15_LapseWithoutStepsRescheduled ==
    [][LapseNoSteps =>
          /\ NoRelearning
          /\ resched(cur) /\ cards'[cur.id].queue # QUEUE_SUSPENDED =>
                /\ KeptInReview
                /\ cards'[cur.id].ivl = nextLapseIvl(cur, lapseConf(cur))]_vars

\* a lapse without relearning steps shortened the interval of a card that
\* stayed in the review queue
C15_Witness ==
    /\ op.name = "answerCard" /\ op.ease = BUTTON_ONE
    /\ op.before.queue = QUEUE_REV
    /\ lapseConf(op.before).delays = <<>>
    /\ Answered.queue = QUEUE_REV
    /\ RLt(Answered.ivl, op.before.ivl)
    /\ Answered.due = RAdd(R(today), Answered.ivl)

\* a new card from the new queue is answered Good under the new steps [1, 10]
FirstGood ==
    /\ op'.name = "answerCard" /\ op'.ease = BUTTON_TWO
    /\ cur.type = CARD_NEW /\ cur.queue = QUEUE_NEW_CRAM
    /\ newConf(cur).delays = <<1, 10>>

\* the card is in the learning queue, due "secs" seconds from now, up to a
\* quarter later
LearningDueIn(card, secs) ==
    /\ card.queue = QUEUE_LRN
    /\ RLe(R(now + secs), card.due)
    /\ RLe(card.due, R(now + secs + (secs \div 4)))

\* C16 as stated: Good on a new card under the steps [1, 10] leaves it with
\* type LEARNING, queue LEARNING, left = 2001 and due about 60 seconds from
\* now, and adds one row to the review log
C16_FirstGoodStaysOnFirstStep ==
    [][FirstGood =>
          /\ cards'[cur.id].type = CARD_LRN
          /\ cards'[cur.id].left = 2 * LeftBase + 1
          /\ LearningDueIn(cards'[cur.id], 60)
          /\ revlog' = revlog + 1]_vars

\* C16 amended: Good on a new card under the steps [1, 10] leaves it with
\* type LEARNING and left = 1001 and adds one row to the review log; when the
\* second step falls before the day cutoff the card is in the LEARNING queue,
\* due 600 to 750 seconds from now or one second behind the head of the
\* learning heap, otherwise it is in the DAY_LEARNING queue
C16_FirstGoodMovesToSecondStep ==
    [][FirstGood =>
          /\ cards'[cur.id].type = CARD_LRN
          /\ cards'[cur.id].left = LeftBase + 1
          /\ revlog' = revlog + 1
          /\ IF now + 750 < dayCutoff
             THEN \/ LearningDueIn(cards'[cur.id], 600)
                  \/ /\ cards'[cur.id].queue = QUEUE_LRN
                     /\ lrnQueue # <<>>
                     /\ cards'[cur.id].due = R(lrnQueue[1][1] + 1)
             ELSE cards'[cur.id].queue \in {QUEUE_LRN, QUEUE_DAY_LRN}]_vars

\* a new card was answered Good under the steps [1, 10] and waits for its
\* second step, later than 600 seconds from the answer
C16_Witness ==
    /\ op.name = "answerCard" /\ op.ease = BUTTON_TWO
    /\ op.before.type = CARD_NEW /\ op.before.queue = QUEUE_NEW_CRAM
    /\ newConf(op.before).delays = <<1, 10>>
    /\ Answered.left = LeftBase + 1
    /\ RLt(R(now + 600), Answered.due)

\* x rounded up
RCeil(a) == -((-a[1]) \div a[2])

\* constrain(x, prev) with the rounding up of the claim
ConstrainUp(x, prev) ==
    RMax(R(RCeil(RMul(x, conf.ivlFct))), RAdd(prev, R(1)))

\* the three candidate intervals of the claim for a card "late" days late
HardUp(card, late) ==
    ConstrainUp(RMul(RAdd(card.ivl, R(late \div 4)), <<6, 5>>), card.ivl)
GoodUp(card, late) ==
    ConstrainUp(RMul(RAdd(card.ivl, R(late \div 2)), RNorm(card.factor, 1000)),
                HardUp(card, late))
EasyUp(card, late) ==
    ConstrainUp(RMul(RMul(RAdd(card.ivl, R(late)), RNorm(card.factor, 1000)),
                     conf.ease4),
                GoodUp(card, late))
CandidateUp(card, ease) ==
    Let(Max(0, today - RFloor(card.due)), LAMBDA late :
        RMin(IF ease = BUTTON_TWO THEN HardUp(card, late)
             ELSE IF ease = BUTTON_THREE THEN GoodUp(card, late)
             ELSE EasyUp(card, late),
             R(conf.maxIvl)))

\* C17: with the fuzz off, a successful review of a card of a regular deck
\* gives it the candidate interval of its ease, computed with
\* constrain(x, prev) = max(ceil(x * ivlFct), prev + 1) and capped at maxIvl,
\* and due = today + ivl
C17_ReviewIntervalsRoundUp ==
    (ReviewSuccess /\ ~conf.spreadRev /\ op.before.odid = 0) =>
        /\ Answered.ivl = RMin(RMax(CandidateUp(op.before, op.ease),
                                   RAdd(op.before.ivl, R(1))),
                               R(conf.maxIvl))
        /\ Answered.due = RAdd(R(today), Answered.ivl)

\* a card of the review queue was answered Again
ReviewLapse ==
    /\ op.name = "answerCard" /\ op.ease = BUTTON_ONE
    /\ op.before.queue = QUEUE_REV

\* the leech rule for a card with that many lapses
LeechDue(lapses, lf) ==
    /\ lf # 0
    /\ lapses >= lf
    /\ (lapses - lf) % Max(lf \div 2, 1) = 0

\* C18: a review lapse signals a leech (the hook runs, the note is tagged)
\* exactly when leechFails is not 0, the lapses of the card after the lapse
\* have reached it and are a multiple of max(leechFails div 2, 1) past it;
\* with leechFails = 0 no leech is ever signalled
C18_LeechRule ==
    /\ ReviewLapse =>
          /\ op.leech <=> LeechDue(Answered.lapses, conf.leechFails)
          /\ op.leech => NoteOf(op.cid) \in leechTags
    /\ conf.leechFails = 0 => ~op.leech /\ leechTags = {}
    /\ op.leech => op.ease = BUTTON_ONE /\ op.before.queue = QUEUE_REV

\* a card past the leech threshold lapsed again without being a leech
C18_Witness ==
    /\ ReviewLapse
    /\ ~op.leech
    /\ Answered.lapses > conf.leechFails
    /\ conf.leechFails # 0
    /\ NoteOf(op.cid) \in leechTags

\* a review lapse made the card a leech under leechAction = SUSPEND
LeechSuspended ==
    /\ ReviewLapse /\ op.leech
    /\ conf.leechAction = LEECH_SUSPEND

\* the card is suspended, out of the filtered deck, off the learning heap,
\* and its due is a day, not a time of the clock
SuspendedAtHome(step) ==
    /\ Answered.queue = QUEUE_SUSPENDED
    /\ Answered.odid = 0 /\ RIsZero(Answered.odue)
    /\ Answered.did = HomeDid
    /\ RLt(Answered.due, R(NowStart))
    /\ step.id \notin {lrnQueue[i][2] : i \in DOMAIN lrnQueue}

\* the card has the fields of a lapse
Lapsed ==
    /\ Answered.lapses = op.before.lapses + 1
    /\ Answered.ivl =
          R(Max(conf.minInt, RFloor(RMul(op.before.ivl, conf.mult))))
    /\ Answered.factor = Max(MinFactor, op.before.factor - 200)

\* C19 as stated: a review lapse that makes the card a leech under SUSPEND
\* leaves it suspended with lapses + 1, ivl = max(minInt, floor(ivl * mult)),
\* factor - 200 (at least 1300), odid = odue = 0 and did the home deck, and
\* neither on the learning heap nor with a learning due
C19_LeechSuspend ==
    LeechSuspended => SuspendedAtHome(op.before) /\ Lapsed

\* C19 amended: the same, the fields of the lapse (lapses, ivl, factor) for
\* an answer that reschedules
C19_LeechSuspendRescheduled ==
    LeechSuspended =>
        /\ SuspendedAtHome(op.before)
        /\ resched(op.before) => Lapsed

\* a card of the filtered deck became a leech on a lapse with relearning
\* steps and was suspended at home
C19_Witness ==
    /\ LeechSuspended
    /\ op.before.odid # 0
    /\ lapseConf(op.before).delays # <<>>
    /\ Answered.queue = QUEUE_SUSPENDED
    /\ Answered.did = HomeDid
    /\ Answered.lapses = op.before.lapses + 1

\* a review card of a regular deck that is not yet due
NotYetDue(row) ==
    /\ row.type = CARD_DUE /\ row.queue = QUEUE_REV
    /\ row.odid = 0 /\ RIsZero(row.odue)
    /\ RLt(R(today), row.due)

\* fillDyn took the row into the filtered deck, at "queue"
MovedToDyn(row, new, n, queue) ==
    /\ new.odid = row.did /\ new.odue = row.due
    /\ new.did = DynDid
    /\ \E i \in 0..(n - 1) : new.due = R(DynDueBase + i)
    /\ new.queue = queue

\* emptyDyn took the row home, into the review queue
MovedHome(row, new) ==
    /\ new.did = row.odid /\ new.due = row.odue
    /\ new.odid = 0 /\ RIsZero(new.odue)
    /\ new.queue = QUEUE_REV

\* the step is emptyDyn on a review card as fillDyn left it
EmptiesReview(c) ==
    /\ op'.name = "emptyDyn" /\ c \in op'.ids
    /\ cards[c].type = CARD_DUE
    /\ cards[c].queue \in {QUEUE_REV, QUEUE_NEW_CRAM}

\* C20 as stated: fillDyn on a review card that is not yet due sets odid to
\* its deck, odue to its due, did to the filtered deck, due = -100000 + index
\* and queue = REVIEW; emptyDyn restores did and due with queue = REVIEW
C20_RoundTripKeepsReviewQueue ==
    [][\A c \in DOMAIN cards :
          /\ (op'.name = "fillDyn" /\ c \in op'.ids /\ NotYetDue(cards[c])) =>
                MovedToDyn(cards[c], cards'[c], Cardinality(op'.ids), QUEUE_REV)
          /\ EmptiesReview(c) => MovedHome(cards[c], cards'[c])]_vars

\* C20 amended: fillDyn on a review card that is not yet due sets odid to its
\* deck, odue to its due, did to the filtered deck, due = -100000 + index and
\* queue = CRAM_NEW; emptyDyn restores did and due and sets queue = REVIEW
C20_RoundTripThroughNewQueue ==
    [][\A c \in DOMAIN cards :
          /\ (op'.name = "fillDyn" /\ c \in op'.ids /\ NotYetDue(cards[c])) =>
                MovedToDyn(cards[c], cards'[c], Cardinality(op'.ids),
                           QUEUE_NEW_CRAM)
          /\ EmptiesReview(c) => MovedHome(cards[c], cards'[c])]_vars

\* fillDyn has moved a review card that falls due later into the filtered
\* deck
C20_Witness ==
    /\ op.name = "fillDyn"
    /\ \E c \in op.ids :
          /\ cards[c].type = CARD_DUE
          /\ cards[c].did = DynDid /\ cards[c].odid = HomeDid
          /\ RLt(R(today), cards[c].odue)
          /\ cards[c].queue = QUEUE_NEW_CRAM

\* sibling burying is on for a card in the queue of the row
BuryOn(row) == IF row.queue = QUEUE_REV THEN conf.revBury ELSE conf.newBury

\* the card is a sibling of the answered card that the answer buries
SiblingToBury(c) ==
    /\ c # cur.id
    /\ NoteOf(c) = NoteOf(cur.id)
    /\ cards[c].queue \in {QUEUE_NEW_CRAM, QUEUE_REV}
    /\ BuryOn(cards[c])

\* C21: an answer gives every other card of the note that is in the new or
\* review queue, when sibling burying is on, the queue SCHED_BURIED, and
\* leaves every other card but the answered one as it was
C21_SiblingsSchedBuried ==
    [][AnswerStep =>
          \A c \in DOMAIN cards \ {cur.id} :
              IF SiblingToBury(c)
              THEN cards'[c] = [cards[c] EXCEPT !.queue = QUEUE_SCHED_BURIED]
              ELSE cards'[c] = cards[c]]_vars

\* the card was buried as a sibling by the answer just given; no call has
\* buried cards by hand
SiblingBuried(c) ==
    /\ op.name = "answerCard" /\ admin = 0
    /\ c # op.cid /\ NoteOf(c) = NoteOf(op.cid)
    /\ cards[c].queue \in {QUEUE_USER_BURIED, QUEUE_SCHED_BURIED}

\* C22: a card buried as a sibling stays buried across unburyCards()
C22_SiblingBuryOutlastsUnbury ==
    [][op'.name = "unburyCards" =>
          \A c \in DOMAIN cards :
              SiblingBuried(c) => cards'[c].queue = cards[c].queue]_vars

\* C23: an answerCard that raises changes no card, no counter of a deck
\* and no row of the review log
C23_FailedAnswerChangesNothing ==
    [][op'.name = "answerFailed" =>
          /\ cards' = cards
          /\ deckStats' = deckStats
          /\ revlog' = revlog]_vars

\* a card of the review queue is answered
ReviewAnswer ==
    /\ op'.name \in {"answerCard", "answerFailed"}
    /\ cur.queue = QUEUE_REV
    /\ op'.ease \in BUTTON_ONE..BUTTON_FOUR

\* C24: an answer of a card of the review queue that returns has added one
\* row to the revlog; a first insert that fails is tried once more, and the
\* answer returns with one row when the second try succeeds; when both fail
\* the answer raises, no row is written and the card row is not flushed
C24_RevlogRetry ==
    [][ReviewAnswer =>
          /\ op'.name = "answerCard" => revlog' = revlog + 1
          /\ op'.fails <= 1 => op'.name = "answerCard"
          /\ op'.fails >= 2 =>
                /\ op'.name = "answerFailed"
                /\ revlog' = revlog
                /\ cards'[cur.id] = cards[cur.id]]_vars

\* a review was answered, the first insert failed and the second wrote the
\* row
C24_Witness ==
    /\ op.name = "answerCard"
    /\ op.before.queue = QUEUE_REV
    /\ op.fails = 1
    /\ revlog > 0

\* the scheduler a request for a card starts from: after the reset of a new
\* day or of a first request, else as it stands
RequestEnv ==
    IF now > dayCutoff \/ ~haveQueues
    THEN resetAll(cards, deckStats, lastUnburied) ELSE NoReset

\* the card each source of the picker would give to the request, 0 for none
DueLearning(e) == getLrnCard(e.q, e.db, e.cutoff, FALSE).got
NewWaiting(e) == getNewCard(e.q, e.db, e.stats).got
ReviewDue(e) == getRevCard(e.q, e.db, e.td, e.stats).got
DayLearningDue(e) == getLrnDayCard(e.q, e.db, e.td).got
LearningSoon(e) == getLrnCard(e.q, e.db, e.cutoff, TRUE).got

\* the card the fixed priority gives
ByPriority(e) ==
    IF DueLearning(e) # 0 THEN DueLearning(e)
    ELSE IF timeForNewCard(e.q) /\ NewWaiting(e) # 0 THEN NewWaiting(e)
    ELSE IF ReviewDue(e) # 0 THEN ReviewDue(e)
    ELSE IF DayLearningDue(e) # 0 THEN DayLearningDue(e)
    ELSE IF NewWaiting(e) # 0 THEN NewWaiting(e)
    ELSE LearningSoon(e)

\* the learning heap the request looks at
HeapSeen(e) == fillLrn(e.q, e.db, e.cutoff).lrnQueue

\* C25: every request returns the first of: the head of the learning heap
\* when its due < now, a new card when it is time for one, a review card, a
\* day-learning card, a new card, the head of the learning heap when its
\* due < now + collapseTime; it returns none only when there is none of
\* these, and a learning card due at or after now + collapseTime is not
\* returned
C25_PickerPriority ==
    [][op'.name = "getCard" =>
          /\ op'.cid = ByPriority(RequestEnv)
          /\ (HeapSeen(RequestEnv) # <<>> /\ HeapSeen(RequestEnv)[1][1] < now) =>
                op'.cid = HeapSeen(RequestEnv)[1][2]
          /\ (/\ HeapSeen(RequestEnv) # <<>>
              /\ HeapSeen(RequestEnv)[1][1] >= now + conf.collapseTime
              /\ NewWaiting(RequestEnv) = 0 /\ ReviewDue(RequestEnv) = 0
              /\ DayLearningDue(RequestEnv) = 0) => op'.cid = 0
          /\ op'.cid = 0 =>
                /\ NewWaiting(RequestEnv) = 0 /\ ReviewDue(RequestEnv) = 0
                /\ DayLearningDue(RequestEnv) = 0
                /\ \/ HeapSeen(RequestEnv) = <<>>
                   \/ HeapSeen(RequestEnv)[1][1] >= now + conf.collapseTime]_vars

\* the request returned the learning card that was due while a new or review
\* card was waiting
C25_Witness ==
    /\ op.name = "getCard"
    /\ op.cid # 0
    /\ cur.queue = QUEUE_LRN
    /\ RLt(cur.due, R(now))
    /\ \E c \in DOMAIN cards :
          /\ c # op.cid
          /\ cards[c].queue \in {QUEUE_NEW_CRAM, QUEUE_REV}
          /\ RLe(cards[c].due, R(today))
          /\ newCount + revCount > 0

\* the request met a review count that no due card stands behind
StaleRevCount ==
    /\ haveQueues /\ now <= dayCutoff
    /\ revCount # 0 /\ revQueue = <<>>
    /\ \A d \in Dids : dueRev(cards, today, d) = {}

\* C26: a request for a card makes _fillRev reset the review queue at most
\* once, and ends with a card of the collection or with none; a request that
\* meets a review count that no due review card stands behind resets once,
\* finds the count at zero and takes no review card
C26_RefillOnce ==
    [][op'.name = "getCard" =>
          /\ op'.resets <= 1
          /\ op'.cid = 0 \/ op'.cid \in DOMAIN cards
          /\ (StaleRevCount /\ op'.resets = 1) =>
                revCount' = 0 /\ revQueue' = <<>>
          /\ StaleRevCount => (cur' = NoCard \/ cur'.queue # QUEUE_REV)]_vars

\* a request reset the review queue once and returned no card
C26_Witness ==
    /\ op.name = "getCard"
    /\ op.resets = 1
    /\ op.cid = 0
    /\ revCount = 0
    /\ admin > 0

\* the step answers a card of the new or of a learning queue and puts it on
\* the heap of today, which holds a card already
Reinserted ==
    /\ op'.name = "answerCard"
    /\ cur.queue \in {QUEUE_NEW_CRAM, QUEUE_LRN, QUEUE_DAY_LRN}
    /\ cards'[cur.id].queue = QUEUE_LRN
    /\ lrnQueue # <<>>

\* the card goes behind the head of the heap
BehindHead ==
    /\ RLt(R(lrnQueue[1][1]), cards'[cur.id].due)
    /\ lrnQueue[1][2] # cur.id => lrnQueue'[1] = lrnQueue[1]

\* a request right after the answer does not return the card just answered
\* while another card is at the head of the heap
NotShownAgain ==
    (/\ op.name = "answerCard"
     /\ op.before.queue \in {QUEUE_NEW_CRAM, QUEUE_LRN, QUEUE_DAY_LRN}
     /\ cards[op.cid].queue = QUEUE_LRN
     /\ lrnQueue # <<>>
     /\ lrnQueue[1][2] # op.cid
     /\ op'.name = "getCard") => op'.cid # op.cid

\* C27 as stated: a learning card answered and put back on the heap of today
\* while the heap is not empty gets a due strictly greater than the due of
\* the head, whether or not review or new cards remain
C27_AlwaysBehindHead ==
    [][Reinserted => BehindHead]_vars

\* C27: with no review and no new card left to show (revCount = 0 and
\* newCount = 0), a learning card answered and put back on the heap of today
\* while the heap is not empty gets a due strictly greater than the due of
\* the head, and a request right after does not return it while another card
\* is at the head
C27_BehindHeadWhenNothingElse ==
    [][/\ (Reinserted /\ revCount = 0 /\ newCount = 0) => BehindHead
       /\ (revCount = 0 /\ newCount = 0) => NotShownAgain]_vars

\* a card answered while another waited on the heap with a later due than the
\* answer computed, and put behind it
C27_Witness ==
    /\ op.name = "answerCard"
    /\ op.before.queue \in {QUEUE_NEW_CRAM, QUEUE_LRN}
    /\ cards[op.cid].queue = QUEUE_LRN
    /\ revCount = 0 /\ newCount = 0
    /\ Len(lrnQueue) = 2
    /\ lrnQueue[1][2] # op.cid
    /\ lrnQueue[2] = <<lrnQueue[1][1] + 1, op.cid>>

\* the step answers a card and pushes it on the heap of today
Pushed ==
    /\ op'.name = "answerCard"
    /\ cards'[cur.id].queue = QUEUE_LRN
    /\ Len(lrnQueue') = Len(lrnQueue) + 1

\* the entry the step pushes
PushedEntry == <<RInt(cards'[cur.id].due), cur.id>>

\* the entries of the heap that come before, and after, the entry e when
\* entries of equal due keep the order of their arrival
ArrivedBefore(e) == SelectSeq(lrnQueue, LAMBDA x : x[1] <= e[1])
ArrivedAfter(e) == SelectSeq(lrnQueue, LAMBDA x : x[1] > e[1])

\* the same when entries of equal due stand in the order of the card ids
SmallerThan(e) == SelectSeq(lrnQueue, LAMBDA x : TupleLt(x, e) \/ x = e)
GreaterThan(e) == SelectSeq(lrnQueue, LAMBDA x : TupleLt(e, x))

\* the dues of the heap never go down, from the head on
DueOrdered(h) == \A i \in 1..(Len(h) - 1) : h[i][1] <= h[i + 1][1]

\* the request takes its card from the learning heap: the head
TakesHead ==
    /\ op'.name = "getCard"
    /\ HeapSeen(RequestEnv) # <<>>
    /\ lrnQueue' = Tail(HeapSeen(RequestEnv))
    /\ op'.cid = HeapSeen(RequestEnv)[1][2]

\* the request takes its card from the learning heap
TakesLearning ==
    /\ op'.name = "getCard"
    /\ Len(lrnQueue') < Len(HeapSeen(RequestEnv))

StaysInLearning ==
    /\ op'.name = "answerCard"
    /\ InLearning(cards'[cur.id])
    /\ cur.queue = QUEUE_REV => op'.ease = BUTTON_ONE

\* the dues in seconds the answer can compute for the card c it leaves in
\* learning: the clock plus the delay of the step, stretched or not
ComputedDues(c) ==
    {RInt(RAdd(R(now), RMul(R(delayForGrade(lrnConf(c), c.left)), f))) :
        f \in LrnFuzz}

\* the card c with the computed due d goes on the heap of today with the
\* due "key"
OnHeapToday(c, d, key) ==
    /\ d < dayCutoff
    /\ c.queue = QUEUE_LRN
    /\ c.due = R(key)
    /\ \E i \in DOMAIN lrnQueue' : lrnQueue'[i] = <<key, c.id>>
    /\ Len(lrnQueue') = Len(lrnQueue) + 1
    /\ lrnCount' = lrnCount + (c.left \div LeftBase)

\* the card c with the computed due d goes to the day learning queue
ToDayLearning(c, d) ==
    /\ d >= dayCutoff
    /\ c.queue = QUEUE_DAY_LRN
    /\ c.due = R(today + ((d - dayCutoff) \div DaySecs) + 1)
    /\ RLt(R(today), c.due)
    /\ lrnQueue' = lrnQueue
    /\ lrnCount' = lrnCount

\* C29 as stated: a card left in learning whose computed due is before
\* dayCutoff is in the learning queue and on the heap with that due, and
\* lrnCount grows by left div 1000; otherwise it is in the day learning queue
\* with due = today + floor((due - dayCutoff) / 86400) + 1, the heap and
\* lrnCount are as before
C29_QueuedWithComputedDue ==
    [][StaysInLearning =>
          \E d \in ComputedDues(cards'[cur.id]) :
              \/ OnHeapToday(cards'[cur.id], d, d)
              \/ ToDayLearning(cards'[cur.id], d)]_vars

\* C29: the same, the due on the heap being the computed due or, for a
\* learning answer with the heap not empty and revCount = newCount = 0, the
\* due of the head plus one when that is later
C29_QueuedWithDue ==
    [][StaysInLearning =>
          \E d \in ComputedDues(cards'[cur.id]) :
              \/ OnHeapToday(cards'[cur.id], d, d)
              \/ /\ cur.queue # QUEUE_REV
                 /\ lrnQueue # <<>> /\ revCount = 0 /\ newCount = 0
                 /\ lrnQueue[1][1] + 1 > d
                 /\ OnHeapToday(cards'[cur.id], d, lrnQueue[1][1] + 1)
              \/ ToDayLearning(cards'[cur.id], d)]_vars

\* a card answered Good on its first step was sent to the day learning queue
\* of tomorrow while another card stayed on the heap
C29_Witness ==
    /\ op.name = "answerCard"
    /\ op.before.queue # QUEUE_REV
    /\ op.ease = BUTTON_TWO
    /\ cards[op.cid].queue = QUEUE_DAY_LRN
    /\ cards[op.cid].due = R(today + 1)
    /\ lrnQueue # <<>>
    /\ \A i \in DOMAIN lrnQueue : lrnQueue[i][2] # op.cid

\* a lapse of a review card under options that reschedule
LapseRescheduled == ReviewLapse /\ resched(op.before)

\* the review due of the lapsed card
ReviewDueOfLapse == RAdd(R(today), Answered.ivl)

\* the review due is where the card keeps it: in odue while the card is in
\* learning, else in due, and in odue too while the card is in a filtered deck
ReviewDueSet ==
    IF InLearning(Answered) THEN Answered.odue = ReviewDueOfLapse
    ELSE /\ Answered.due = ReviewDueOfLapse
         /\ Answered.odid # 0 => Answered.odue = ReviewDueOfLapse

\* the lapse has relearning steps and did not suspend the card
Relearns ==
    /\ lapseConf(op.before).delays # <<>>
    /\ Answered.queue # QUEUE_SUSPENDED

\* the due in seconds of the first relearning step
FirstStepDue == now + lapseConf(op.before).delays[1] * 60

\* the card is a review card in relearning from the first step
InRelearning ==
    /\ Answered.type = CARD_DUE
    /\ Answered.left = startingLeft(Answered)
    /\ InLearning(Answered)
    /\ Answered.odue = ReviewDueOfLapse

\* C30 as stated: a lapse under options that reschedule sets lapses + 1,
\* ivl = max(minInt, floor(ivl * mult)), factor = max(1300, factor - 200) and
\* the review due today + ivl; with relearning steps and no suspension the
\* card keeps type review, has left = startingLeft, is in a learning queue
\* with due = now + delay of the first step, and odue holds the review due
C30_LapseThenFirstStep ==
    LapseRescheduled =>
        /\ Lapsed
        /\ ReviewDueSet
        /\ Relearns => InRelearning /\ Answered.due = R(FirstStepDue)

\* C30: the same, the due being now + delay of the first step when that is
\* before dayCutoff and else the day today + floor((due - dayCutoff) / 86400)
\* + 1 of the day learning queue
C30_LapseThenFirstStepOrDay ==
    LapseRescheduled =>
        /\ Lapsed
        /\ ReviewDueSet
        /\ Relearns =>
              /\ InRelearning
              /\ IF FirstStepDue < dayCutoff
                 THEN Answered.queue = QUEUE_LRN /\ Answered.due = R(FirstStepDue)
                 ELSE /\ Answered.queue = QUEUE_DAY_LRN
                      /\ Answered.due =
                            R(today + ((FirstStepDue - dayCutoff) \div DaySecs) + 1)

\* a review card of a filtered deck lapsed into relearning; its odue, set
\* when the deck was built, now holds the new review due
C30_Witness ==
    /\ LapseRescheduled /\ Relearns
    /\ op.before.odid # 0
    /\ op.before.odue # ReviewDueOfLapse
    /\ Answered.odue = ReviewDueOfLapse
    /\ Answered.queue = QUEUE_LRN
    /\ Answered.due = R(FirstStepDue)

\* the call the last step made was one of the two single-deck limits
SingleLimitAsked == op.name \in {"deckNewLimitSingle", "deckRevLimitSingle"}

\* what the deck the limit was asked for has left of its kind today, and what
\* it has left of cards of both kinds
LeftOfKind ==
    IF op.name = "deckNewLimitSingle"
    THEN conf.newPerDay - deckStats[op.did].newToday[2]
    ELSE conf.revPerDay - deckStats[op.did].revToday[2]
LeftOfAll ==
    conf.perDayAll - deckStats[op.did].revToday[2] - deckStats[op.did].newToday[2]

\* the caps in force on the limit
CapsInForce == {LeftOfKind} \cup (IF conf.limitAllCards THEN {LeftOfAll} ELSE {})

\* C31: the single-deck new and review limits are reportLimit for a filtered
\* deck whatever its counters and whatever limitAllCards is; for a regular
\* deck they are never negative, are 0 when what is left of the kind (or, with
\* limitAllCards set, what is left of all cards) is 0 or less, and are
\* otherwise the smaller of the caps in force
C31_SingleLimits ==
    SingleLimitAsked =>
        IF IsDyn(op.did) THEN op.ret = reportLimit
        ELSE /\ op.ret >= 0
             /\ (\E cap \in CapsInForce : cap <= 0) => op.ret = 0
             /\ (\A cap \in CapsInForce : cap > 0) =>
                   /\ op.ret \in CapsInForce
                   /\ \A cap \in CapsInForce : op.ret <= cap

\* the review limit of a regular deck with limitAllCards set where the budget
\* of all cards is what limits it, and leaves something
C31_Witness ==
    /\ op.name = "deckRevLimitSingle" /\ ~IsDyn(op.did)
    /\ conf.limitAllCards
    /\ 0 < LeftOfAll /\ LeftOfAll < LeftOfKind
    /\ op.ret = LeftOfAll

\* the rows and the limits the last deckDueList made
ListRows == op.ret.data
ListLims == op.ret.lims

\* the name a is a proper prefix of the name b: the deck a is above the deck b
IsAbove(a, b) == Len(a) < Len(b) /\ SubSeq(b, 1, Len(a)) = a

\* the least number of a non-empty finite set of numbers
Least(S) == CHOOSE x \in S : \A y \in S : x <= y

\* the limits of the k-th kind (1 new, 2 review) that count for row i: the
\* deck's own and the recorded limits of the decks above it
LimitsOver(i, k) ==
    {IF k = 1 THEN deckNewLimitSingle(deckStats, ListRows[i][2])
     ELSE deckRevLimitSingle(deckStats, ListRows[i][2])}
      \cup {ListLims[j][2][k] : j \in {x \in 1..Len(ListLims) :
                                          IsAbove(ListLims[x][1], ListRows[i][1])}}

\* C32: in deckDueList the new and the review limit of every deck are the
\* least of the deck's own single-deck limit and the limits of the decks
\* above it, the new and review counts reported do not exceed them, and the
\* limits of a deck's parent are recorded before the deck is processed
C32_ListLimits ==
    op.name = "deckDueList" =>
        /\ Len(ListRows) = Cardinality(TreeDids)
        /\ \A i \in 1..Len(ListRows) :
              /\ ListLims[i][1] = ListRows[i][1]
              /\ ListLims[i][2][1] = Least(LimitsOver(i, 1))
              /\ ListLims[i][2][2] = Least(LimitsOver(i, 2))
              /\ ListRows[i][5] <= ListLims[i][2][1]
              /\ ListRows[i][3] <= ListLims[i][2][2]
              /\ Len(ListRows[i][1]) > 1 =>
                    \E j \in 1..(i - 1) :
                        ListLims[j][1] = SubSeq(ListRows[i][1], 1, Len(ListRows[i][1]) - 1)

\* a deck two levels down whose own new limit leaves a card, whose parent's
\* leaves none while the top deck's leaves one, and which has a new card
C32_Witness ==
    /\ op.name = "deckDueList"
    /\ \E i \in 1..Len(ListRows) :
          /\ ListRows[i][2] = LeafDid
          /\ deckNewLimitSingle(deckStats, LeafDid) > 0
          /\ deckNewLimitSingle(deckStats, SubDid) = 0
          /\ deckNewLimitSingle(deckStats, HomeDid) > 0
          /\ newIn(cards, LeafDid) # {}
          /\ ListLims[i][2][1] = 0 /\ ListRows[i][5] = 0

\* the rows of the deck list of the collection, and the row of the deck did
OwnRows == deckDueList(cards, now, today, deckStats).data
OwnRow(data, did) == data[CHOOSE i \in 1..Len(data) : data[i][2] = did]

\* the k-th count of the deck of the node and of the nodes below it, added up
RECURSIVE SumOfNodes(_, _)
SumOfNodes(nodes, k) ==
    IF nodes = <<>> THEN 0 ELSE nodes[1][k] + SumOfNodes(Tail(nodes), k)
SumAt(data, node, k) == OwnRow(data, node[2])[k] + SumOfNodes(node[6], k)

\* the count shown is the sum, cut down to what the deck has left and to 0
CutTo(shown, sum, left) ==
    /\ left <= 0 => shown = 0
    /\ left > 0 /\ sum <= left => shown = sum
    /\ left > 0 /\ sum > left => shown = left

\* what the deck of the node has left of reviews and of new cards today
RevLeft(node) == conf.revPerDay - deckStats[node[2]].revToday[2]
NewLeft(node) == conf.newPerDay - deckStats[node[2]].newToday[2]

RECURSIVE NodesAddUp(_, _)
NodesAddUp(data, nodes) ==
    \A i \in 1..Len(nodes) :
        Let(nodes[i], LAMBDA node :
            /\ node[4] = SumAt(data, node, 4)
            /\ IF IsDyn(node[2])
               THEN node[3] = SumAt(data, node, 3) /\ node[5] = SumAt(data, node, 5)
               ELSE /\ CutTo(node[3], SumAt(data, node, 3), RevLeft(node))
                    /\ CutTo(node[5], SumAt(data, node, 5), NewLeft(node))
                    /\ NewLeft(node) >= 0 => 0 <= node[5] /\ node[5] <= NewLeft(node)
            /\ NodesAddUp(data, node[6]))

\* C33: in the deck-due tree every node's rev, lrn and new are the deck's own
\* counts plus the counts shown by the nodes below it; for a regular deck rev
\* and new are then cut to what the deck has left today (perDay less the done)
\* and to 0, lrn is not cut, and nothing is cut for a filtered deck; so a
\* regular node shows between 0 and perDay - newToday[1] new cards whenever
\* that difference is not negative
C33_TreeCounts ==
    op.name = "deckDueTree" =>
        Let(OwnRows, LAMBDA data : NodesAddUp(data, op.ret))

\* the top node shows fewer reviews than its deck and the nodes below add up
\* to, one of the nodes below was itself cut, and it shows more learning
\* repetitions than any limit of the day
C33_Witness ==
    /\ op.name = "deckDueTree"
    /\ Len(op.ret) = 1
    /\ 0 < op.ret[1][3] /\ op.ret[1][3] < SumAt(OwnRows, op.ret[1], 3)
    /\ \E k \in 1..Len(op.ret[1][6]) :
          Let(op.ret[1][6][k], LAMBDA node :
              ~IsDyn(node[2]) /\ 0 < node[3] /\ node[3] < SumAt(OwnRows, node, 3))
    /\ op.ret[1][4] > conf.revPerDay

\* the deck a card belongs to when it is in no filtered deck
HomeOf(card) == IF card.odid # 0 THEN card.odid ELSE card.did

\* a review card in relearning, a card in its first learning
Relearning(card) == InLearning(card) /\ card.type = CARD_DUE
FirstLearning(card) == InLearning(card) /\ card.type = CARD_LRN

\* the card c as suspendCards left it
SuspendedFrom(before, after) ==
    /\ after.queue = QUEUE_SUSPENDED
    /\ after.odid = 0 /\ RIsZero(after.odue)
    /\ after.did = HomeOf(before)
    /\ Relearning(before) => after.type = CARD_DUE /\ after.due = before.odue
    /\ FirstLearning(before) => after.type = CARD_NEW /\ RIsZero(after.ivl)

\* C34: suspendCards(ids) leaves every listed card suspended, in its home
\* deck, with odid = odue = 0, whatever its state was (a card in relearning
\* has its review due back, a card in learning is a new card again);
\* unsuspendCards(ids) sets queue = type for the listed cards that are
\* suspended and changes no other card (a buried card listed stays buried)
C34_SuspendUnsuspend ==
    [][/\ op'.name = "suspendCards" =>
            \A c \in op'.ids : SuspendedFrom(cards[c], cards'[c])
       /\ op'.name = "unsuspendCards" =>
            \A c \in DOMAIN cards :
                cards'[c] = IF c \in op'.ids /\ cards[c].queue = QUEUE_SUSPENDED
                            THEN [cards[c] EXCEPT !.queue = cards[c].type]
                            ELSE cards[c]]_vars

\* suspendCards was given a review card in relearning: the card is suspended
\* with the steps it had left and its review due, a later day, back
C34_Witness ==
    /\ op.name = "suspendCards"
    /\ \E c \in op.ids :
          /\ cards[c].queue = QUEUE_SUSPENDED
          /\ cards[c].type = CARD_DUE /\ cards[c].left > 0
          /\ RLt(R(today), cards[c].due)
          /\ cards[c].odid = 0 /\ RIsZero(cards[c].odue)

\* C35: backups are the only work off the main thread: a backup thread works
\* on the path and the data it was started with and leaves the collection and
\* the scheduler as they are; no more than one thread is ever started for one
\* file name; and the clean-up of a backup() unlinks no file that the same
\* backup() created
C35_BackupThreads ==
    [][/\ op'.name = "BackupThread.run" => UNCHANGED schedVars
       /\ \A th \in backups'.threads : th.path \in DOMAIN backups'.started
       /\ \A f \in DOMAIN backups'.started : backups'.started[f] <= 1
       /\ backups'.unlinked \cap backups'.made = {}]_vars

\* the last call answered a card that was in a learning queue
LearningAnswer == op.name = "answerCard" /\ InLearning(op.before)

\* the steps the card given was on, and the seconds of the first of them
StepsAt == lrnConf(op.before).delays
FirstDelay == StepsAt[1] * 60

\* the interval a failed relearning step leaves
FailedIvl == RMax(RMax(R(1), R(conf.minInt)), RMul(op.before.ivl, conf.mult))

\* the card is back at the first step: all steps left, and due after the
\* first step's delay (stretched by a quarter at most), in the day learning
\* queue when that is after the day's end
AtFirstStep ==
    /\ InLearning(Answered)
    /\ Answered.type = op.before.type
    /\ Answered.left = startingLeft(op.before)
    /\ Answered.left % LeftBase = Len(StepsAt)
    /\ Answered.queue = QUEUE_LRN =>
          /\ RLe(R(now + FirstDelay), Answered.due)
          /\ RLe(Answered.due, RMul(R(4 * now + 5 * FirstDelay), <<1, 4>>))
    /\ Answered.queue = QUEUE_DAY_LRN =>
          /\ now + FirstDelay >= dayCutoff
          /\ RLt(R(today), Answered.due)

\* ease 3 ends the learning; ease 2 ends it on the last step and else leaves
\* one step less
Progress ==
    /\ op.ease = BUTTON_THREE => ~InLearning(Answered)
    /\ op.ease = BUTTON_TWO =>
          IF op.before.left % LeftBase <= 1 THEN ~InLearning(Answered)
          ELSE /\ InLearning(Answered)
               /\ Answered.left % LeftBase = (op.before.left % LeftBase) - 1

\* C36 as stated: of the answers to a card in learning, ease 3 and ease 2
\* make progress; ease 4 like ease 1 is a failure: left is startingLeft
\* again, the interval of a card in relearning is reduced to
\* max(1, minInt, ivl * mult), and the card is due at the first step
C36_EaseFourFails ==
    LearningAnswer =>
        /\ Progress
        /\ op.ease \in {BUTTON_ONE, BUTTON_FOUR} =>
              /\ AtFirstStep
              /\ Relearning(op.before) => Answered.ivl = FailedIvl

\* C36: the same, the interval of a card in relearning being reduced when
\* rescheduling is in effect and left as it is for a card of a filtered deck
\* that does not reschedule
C36_EaseFourFailsResched ==
    LearningAnswer =>
        /\ Progress
        /\ op.ease \in {BUTTON_ONE, BUTTON_FOUR} =>
              /\ AtFirstStep
              /\ Relearning(op.before) =>
                    Answered.ivl = IF resched(op.before) THEN FailedIvl
                                   ELSE op.before.ivl

\* ease 4 on a card in relearning under options that reschedule: the
\* interval is cut and the card is back at the first step
C36_Witness ==
    /\ LearningAnswer /\ op.ease = BUTTON_FOUR
    /\ Relearning(op.before) /\ resched(op.before)
    /\ RLt(Answered.ivl, op.before.ivl)
    /\ Answered.queue = QUEUE_LRN

CramReview ==
    /\ op.name = "answerCard"
    /\ op.before.queue = QUEUE_REV
    /\ op.before.odid # 0
    /\ ~resched(op.before)

\* the answer left the interval, the factor and the lapses as they were
SchedulingKept ==
    /\ Answered.ivl = op.before.ivl
    /\ Answered.factor = op.before.factor
    /\ Answered.lapses = op.before.lapses

\* the card is back in its home deck, due on the day saved in odue
BackHome ==
    /\ Answered.did = op.before.odid
    /\ Answered.due = op.before.odue
    /\ Answered.odid = 0 /\ RIsZero(Answered.odue)

\* C38: answering a card of the review queue of a filtered deck that does not
\* reschedule leaves ivl, factor and lapses unchanged with any ease; ease 2-4
\* returns the card to its home deck with due = the saved odue and
\* odid = odue = 0; ease 1 keeps the saved odue
C38_CramReviewKeepsCard ==
    CramReview =>
        /\ SchedulingKept
        /\ op.ease >= BUTTON_TWO => BackHome
        /\ op.ease = BUTTON_ONE => Answered.odue = op.before.odue

\* C38: the same, ease 1 keeping the saved odue unless the answer suspends
\* the card as a leech, which returns it to its home deck as ease 2-4 does
C38_CramReviewKeepsOrSuspends ==
    CramReview =>
        /\ SchedulingKept
        /\ op.ease >= BUTTON_TWO => BackHome
        /\ op.ease = BUTTON_ONE =>
              IF op.leech /\ conf.leechAction = LEECH_SUSPEND
              THEN BackHome /\ Answered.queue = QUEUE_SUSPENDED
              ELSE Answered.odue = op.before.odue

\* ease 1 on such a card sent it to relearning with its review due date kept
\* in odue
C38_Witness ==
    /\ CramReview /\ op.ease = BUTTON_ONE
    /\ InLearning(Answered)
    /\ Answered.odue = op.before.odue /\ ~RIsZero(Answered.odue)

\* C39: after every answerCard, the interval of every card of type review is
\* an integer >= 1, Again answers on a card in relearning included
C39_IvlIntegral ==
    op.name = "answerCard" =>
        \A c \in DOMAIN cards :
            cards[c].type = CARD_DUE =>
                /\ RIsInt(cards[c].ivl)
                /\ RLe(R(1), cards[c].ivl)

\* an answer that graduates a card in relearning: ease 3, or ease 2 on the
\* last step
RelearnGraduation ==
    /\ op.name = "answerCard"
    /\ Relearning(op.before)
    /\ \/ op.ease = BUTTON_THREE
       \/ op.ease = BUTTON_TWO /\ (op.before.left % LeftBase) - 1 <= 0

====
